---- MODULE Spec2Model ----
(***************************************************************************)
(* OneMoreSet: the wall-clock anchored workout timer.                      *)
(*                                                                         *)
(* The timer engine (lib/timer) is a set of pure transition functions over *)
(* a TimerState; the player screen owns one TimerState and one phase list  *)
(* and applies the functions from its handlers.  Times are milliseconds as *)
(* returned by Date.now(); phase durations are whole seconds.              *)
(*                                                                         *)
(* The specifications of the module share its variables; each holds the    *)
(* parts it does not model still:                                          *)
(*   Spec             the transition functions, applied in any order;      *)
(*   SpecPhases       buildPhases (lib/time) applied to a schedule;        *)
(*   SpecCues         a session of the player screen with its sounds: the  *)
(*                    handlers as the controls allow them, the tick        *)
(*                    interval, the countdown timeouts and the passing of  *)
(*                    time;                                                *)
(*   SpecCompletion   the recording of completed runs by the player        *)
(*                    screen;                                              *)
(*   SpecPreStart     the countdown before the start                       *)
(*                    (usePreStartCountdown), and SpecPreStartFair, where  *)
(*                    its heartbeat keeps running and time passes;         *)
(*   SpecLive         the live activity (useLiveActivity) with a library   *)
(*                    whose calls return, and SpecLiveFailing, where they  *)
(*                    may throw;                                           *)
(*   SpecRefs         the writers of the TimerState, with the effects of a *)
(*                    render run after it;                                 *)
(*   SpecTeardown     a session with its pre-start countdown, cues, tick   *)
(*                    interval and live activity, torn down at any moment; *)
(*   SpecProps        the countdown before the start of a hook rendered    *)
(*                    with changing values, and SpecPropsFair;             *)
(*   SpecReset        the change of the phase list under the writers of    *)
(*                    the TimerState;                                      *)
(*   SpecStore        the store of the completions under the player;       *)
(*   SpecRun          a run of the timer from the opening of the player,   *)
(*                    and SpecRunFair, where the tick interval keeps       *)
(*                    running and time passes.                             *)
(***************************************************************************)
EXTENDS Integers, Sequences, FiniteSets, TLC

\* ------------------------------------------------------------------------
\* Bounds of the model
\* ------------------------------------------------------------------------

\* half seconds a session lasts before it is torn down
MaxTeardownHalfSeconds == 3
\* longest phase list
MaxPhases == 2
\* longest phase, in seconds
MaxSec == 2
\* Date.now() is sampled every half second, MaxHalfSeconds times at most
MaxHalfSeconds == 4

\* the values Date.now() can return to a handler
NowSet == {k * 500 : k \in 0..MaxHalfSeconds}

\* ------------------------------------------------------------------------
\* Small helpers
\* ------------------------------------------------------------------------

Max2(a, b) == IF a >= b THEN a ELSE b
Min2(a, b) == IF a <= b THEN a ELSE b

\* `number | null`: null is the empty tuple, a number v is <<v>>
Null == <<>>
Some(v) == <<v>>
ValueOf(x) == x[1]

\* ------------------------------------------------------------------------
\* lib/timer
\* ------------------------------------------------------------------------

\* milliseconds in a second, the factor of toMs
MsPerSec == 1000

\* TimerItem[]: the phase lists the player derives from a schedule; every
\* phase lasts a whole number of seconds, at least one (clampDuration)
TimerItems == [durationSec : 1..MaxSec]

SeqsUpTo(S, n) == UNION {[1..m -> S] : m \in 0..n}

PhaseLists == SeqsUpTo(TimerItems, MaxPhases)

\* Math.max(0, Math.round(seconds * 1000)), on whole seconds
toMs(seconds) == Max2(0, seconds * MsPerSec)

\* steps[index] ? toMs(steps[index].durationSec) : 0   (index is 0-based)
getStepDurationMs(steps, index) ==
    IF index >= 0 /\ index < Len(steps)
    THEN toMs(steps[index + 1].durationSec)
    ELSE 0

finishedState(index) ==
    [status |-> "finished", currentStepIndex |-> index, remainingMs |-> 0,
     stepStartedAt |-> Null, pausedRemainingMs |-> Null]

runningState(index, remainingMs, startedAt) ==
    [status |-> "running", currentStepIndex |-> index, remainingMs |-> remainingMs,
     stepStartedAt |-> Some(startedAt), pausedRemainingMs |-> Null]

createInitialTimerState(steps) ==
    [status |-> IF Len(steps) > 0 THEN "idle" ELSE "finished",
     currentStepIndex |-> 0,
     remainingMs |-> getStepDurationMs(steps, 0),
     stepStartedAt |-> Null,
     pausedRemainingMs |-> Null]

\* startTimer without the guard for an empty list
startTimer_NoEmptyGuard(steps, now) ==
    runningState(0, getStepDurationMs(steps, 0), now)

startTimer(steps, now) ==
    IF Len(steps) = 0
    THEN finishedState(0)
    ELSE runningState(0, getStepDurationMs(steps, 0), now)

restartTimer(steps, now) == startTimer(steps, now)

\* pauseTimer leaving the anchor of the running phase in place
pauseTimer_KeepAnchor(state, steps, now) ==
    IF state.status # "running"
    THEN state
    ELSE LET durationMs == getStepDurationMs(steps, state.currentStepIndex)
             startedAt == IF state.stepStartedAt = Null THEN now
                          ELSE ValueOf(state.stepStartedAt)
             elapsed == Max2(0, now - startedAt)
             remainingMs == Max2(0, durationMs - elapsed)
         IN [state EXCEPT !.status = "paused",
                          !.pausedRemainingMs = Some(remainingMs),
                          !.remainingMs = remainingMs]

\* pauseTimer without the two clamps
pauseTimer_Unclamped(state, steps, now) ==
    IF state.status # "running"
    THEN state
    ELSE LET durationMs == getStepDurationMs(steps, state.currentStepIndex)
             startedAt == IF state.stepStartedAt = Null THEN now
                          ELSE ValueOf(state.stepStartedAt)
             elapsed == now - startedAt
             remainingMs == durationMs - elapsed
         IN [state EXCEPT !.status = "paused",
                          !.pausedRemainingMs = Some(remainingMs),
                          !.remainingMs = remainingMs,
                          !.stepStartedAt = Null]

pauseTimer(state, steps, now) ==
    IF state.status # "running"
    THEN state
    ELSE LET durationMs == getStepDurationMs(steps, state.currentStepIndex)
             startedAt == IF state.stepStartedAt = Null THEN now
                          ELSE ValueOf(state.stepStartedAt)
             elapsed == Max2(0, now - startedAt)
             remainingMs == Max2(0, durationMs - elapsed)
         IN [state EXCEPT !.status = "paused",
                          !.pausedRemainingMs = Some(remainingMs),
                          !.remainingMs = remainingMs,
                          !.stepStartedAt = Null]

\* resumeTimer anchoring the phase at now, as if nothing of it had run
resumeTimer_AnchorAtNow(state, steps, now) ==
    IF state.status # "paused"
    THEN state
    ELSE LET durationMs == getStepDurationMs(steps, state.currentStepIndex)
             pausedMs == IF state.pausedRemainingMs = Null THEN durationMs
                         ELSE ValueOf(state.pausedRemainingMs)
             remainingMs == Min2(pausedMs, durationMs)
         IN [state EXCEPT !.status = "running",
                          !.stepStartedAt = Some(now),
                          !.pausedRemainingMs = Null,
                          !.remainingMs = remainingMs]

\* resumeTimer giving the phase its whole duration again
resumeTimer_FullDuration(state, steps, now) ==
    IF state.status # "paused"
    THEN state
    ELSE LET durationMs == getStepDurationMs(steps, state.currentStepIndex)
         IN [state EXCEPT !.status = "running",
                          !.stepStartedAt = Some(now),
                          !.pausedRemainingMs = Null,
                          !.remainingMs = durationMs]

resumeTimer(state, steps, now) ==
    IF state.status # "paused"
    THEN state
    ELSE LET durationMs == getStepDurationMs(steps, state.currentStepIndex)
             pausedMs == IF state.pausedRemainingMs = Null THEN durationMs
                         ELSE ValueOf(state.pausedRemainingMs)
             remainingMs == Min2(pausedMs, durationMs)
             startedAt == now - (durationMs - remainingMs)
         IN [state EXCEPT !.status = "running",
                          !.stepStartedAt = Some(startedAt),
                          !.pausedRemainingMs = Null,
                          !.remainingMs = remainingMs]

\* tickWalk anchoring the phase at now instead of now - elapsed
RECURSIVE tickWalk_AnchorAtNow(_, _, _, _)
tickWalk_AnchorAtNow(steps, index, elapsed, now) ==
    IF index >= Len(steps)
    THEN finishedState(Max2(Len(steps) - 1, 0))
    ELSE LET durationMs == getStepDurationMs(steps, index)
         IN IF durationMs <= 0
            THEN tickWalk_AnchorAtNow(steps, index + 1, elapsed, now)
            ELSE IF elapsed < durationMs
                 THEN runningState(index, durationMs - elapsed, now)
                 ELSE tickWalk_AnchorAtNow(steps, index + 1, elapsed - durationMs, now)

\* tickWalk leaving a phase only after its end (elapsed <= durationMs)
RECURSIVE tickWalk_LeaveLate(_, _, _, _)
tickWalk_LeaveLate(steps, index, elapsed, now) ==
    IF index >= Len(steps)
    THEN finishedState(Max2(Len(steps) - 1, 0))
    ELSE LET durationMs == getStepDurationMs(steps, index)
         IN IF durationMs <= 0
            THEN tickWalk_LeaveLate(steps, index + 1, elapsed, now)
            ELSE IF elapsed <= durationMs
                 THEN runningState(index, durationMs - elapsed, now - elapsed)
                 ELSE tickWalk_LeaveLate(steps, index + 1, elapsed - durationMs, now)

\* tickWalk forgetting the time that ran past the end of a phase
RECURSIVE tickWalk_DropOvershoot(_, _, _, _)
tickWalk_DropOvershoot(steps, index, elapsed, now) ==
    IF index >= Len(steps)
    THEN finishedState(Max2(Len(steps) - 1, 0))
    ELSE LET durationMs == getStepDurationMs(steps, index)
         IN IF durationMs <= 0
            THEN tickWalk_DropOvershoot(steps, index + 1, elapsed, now)
            ELSE IF elapsed < durationMs
                 THEN runningState(index, durationMs - elapsed, now - elapsed)
                 ELSE tickWalk_DropOvershoot(steps, index + 1, 0, now)

\* tickWalk without the loop: at the end of a phase it starts the next one
tickWalk_OnePhasePerTick(steps, index, elapsed, now) ==
    IF index >= Len(steps)
    THEN finishedState(Max2(Len(steps) - 1, 0))
    ELSE LET durationMs == getStepDurationMs(steps, index)
         IN IF elapsed < durationMs
            THEN runningState(index, durationMs - elapsed, now - elapsed)
            ELSE IF index + 1 >= Len(steps)
                 THEN finishedState(Max2(Len(steps) - 1, 0))
                 ELSE runningState(index + 1, getStepDurationMs(steps, index + 1), now)

\* the while loop of tickTimer
RECURSIVE tickWalk(_, _, _, _)
tickWalk(steps, index, elapsed, now) ==
    IF index >= Len(steps)
    THEN finishedState(Max2(Len(steps) - 1, 0))
    ELSE LET durationMs == getStepDurationMs(steps, index)
         IN IF durationMs <= 0
            THEN tickWalk(steps, index + 1, elapsed, now)
            ELSE IF elapsed < durationMs
                 THEN runningState(index, durationMs - elapsed, now - elapsed)
                 ELSE tickWalk(steps, index + 1, elapsed - durationMs, now)

\* tickTimer holding the last phase at 0 instead of finishing
tickTimer_HoldLastPhase(state, steps, now) ==
    IF state.status # "running"
    THEN state
    ELSE IF Len(steps) = 0
         THEN finishedState(0)
         ELSE LET baseStartedAt == IF state.stepStartedAt = Null THEN now
                                   ELSE ValueOf(state.stepStartedAt)
                  walked == tickWalk(steps, state.currentStepIndex,
                                     Max2(0, now - baseStartedAt), now)
              IN IF walked.status = "finished"
                 THEN runningState(walked.currentStepIndex, 0,
                                   now - getStepDurationMs(steps, walked.currentStepIndex))
                 ELSE walked

\* tickTimer without the guard on the status
tickTimer_AnyStatus(state, steps, now) ==
    IF Len(steps) = 0
    THEN finishedState(0)
    ELSE LET baseStartedAt == IF state.stepStartedAt = Null THEN now
                              ELSE ValueOf(state.stepStartedAt)
         IN tickWalk(steps, state.currentStepIndex,
                     Max2(0, now - baseStartedAt), now)

tickTimer(state, steps, now) ==
    IF state.status # "running"
    THEN state
    ELSE IF Len(steps) = 0
         THEN finishedState(0)
         ELSE LET baseStartedAt == IF state.stepStartedAt = Null THEN now
                                   ELSE ValueOf(state.stepStartedAt)
              IN tickWalk(steps, state.currentStepIndex,
                          Max2(0, now - baseStartedAt), now)

\* getTotalRemainingMs: what is left of the phase and the phases after it
RECURSIVE futureMs(_, _)
futureMs(steps, from) ==
    IF from >= Len(steps) THEN 0
    ELSE toMs(steps[from + 1].durationSec) + futureMs(steps, from + 1)

getTotalRemainingMs(steps, state) ==
    state.remainingMs + futureMs(steps, state.currentStepIndex + 1)

\* nextStep finishing on the index past the end
nextStep_FinishPastEnd(state, steps, now) ==
    LET nextIndex == state.currentStepIndex + 1
    IN IF nextIndex >= Len(steps)
       THEN finishedState(nextIndex)
       ELSE runningState(nextIndex, getStepDurationMs(steps, nextIndex), now)

\* nextStep carrying the remaining time over to the next phase
nextStep_KeepRemaining(state, steps, now) ==
    LET nextIndex == state.currentStepIndex + 1
    IN IF nextIndex >= Len(steps)
       THEN finishedState(Max2(Len(steps) - 1, 0))
       ELSE runningState(nextIndex,
                         Min2(state.remainingMs, getStepDurationMs(steps, nextIndex)),
                         now)

nextStep(state, steps, now) ==
    LET nextIndex == state.currentStepIndex + 1
    IN IF nextIndex >= Len(steps)
       THEN finishedState(Max2(Len(steps) - 1, 0))
       ELSE runningState(nextIndex, getStepDurationMs(steps, nextIndex), now)

previousStep(state, steps, now) ==
    IF Len(steps) = 0
    THEN finishedState(0)
    ELSE LET prevIndex == IF state.currentStepIndex > 0
                          THEN state.currentStepIndex - 1 ELSE 0
         IN runningState(prevIndex, getStepDurationMs(steps, prevIndex), now)

\* ------------------------------------------------------------------------
\* screens/PlayerScreen
\* ------------------------------------------------------------------------

\* handleSelectPhase leaving pausedRemainingMs as it was
selectPhase_StalePaused(state, steps, phaseIndex) ==
    LET durationSec == IF phaseIndex >= 0 /\ phaseIndex < Len(steps)
                       THEN steps[phaseIndex + 1].durationSec ELSE 0
        durationMs == IF durationSec > 0 THEN durationSec * 1000 ELSE 0
    IN [state EXCEPT !.status = "paused",
                     !.currentStepIndex = phaseIndex,
                     !.remainingMs = durationMs,
                     !.stepStartedAt = Null]

\* the state update of handleSelectPhase
selectPhase(state, steps, phaseIndex) ==
    LET durationSec == IF phaseIndex >= 0 /\ phaseIndex < Len(steps)
                       THEN steps[phaseIndex + 1].durationSec ELSE 0
        durationMs == IF durationSec > 0 THEN durationSec * 1000 ELSE 0
    IN [state EXCEPT !.status = "paused",
                     !.currentStepIndex = phaseIndex,
                     !.remainingMs = durationMs,
                     !.stepStartedAt = Null,
                     !.pausedRemainingMs = Some(durationMs)]

\* ------------------------------------------------------------------------
\* screens/PlayerScreen: the cues (sounds) of a session
\* ------------------------------------------------------------------------

\* the clock of a session is read every half second, MaxCueHalfSeconds times
MaxCueHalfSeconds == 8

COUNTDOWN_CUE_SECONDS == 3
HALF_CUE_WINDOW_MS == 2000

\* A sound as it is heard: playStartSound, playLockSound, playHalfSound and
\* playBeepSound; for a beep, cue is the second it counts, 0 otherwise.
Sound(name, cue) == [name |-> name, cue |-> cue]
StartSound == Sound("start", 0)
LockSound == Sound("lock", 0)
HalfSound == Sound("half", 0)
BeepSound(second) == Sound("beep", second)

\* the refs of the screen after mount: lastStepIndexRef, lastCountdownBeepRef
\* and halfCueIndexRef
initialRefs(state) ==
    [lastStepIndex |-> state.currentStepIndex,
     lastCountdownBeep |-> Null,
     halfCueIndex |-> Null]

\* phases[index]?.type
typeOf(steps, index) ==
    IF index >= 0 /\ index < Len(steps) THEN steps[index + 1].type ELSE "undefined"

\* the transition cue effect, forgetting to remember the index it has seen
transitionCueEffect_KeepRef(refs, steps, state) ==
    IF state.currentStepIndex # refs.lastStepIndex
    THEN [refs |-> [refs EXCEPT !.halfCueIndex = Null],
          sounds |-> IF typeOf(steps, state.currentStepIndex) = "exercise"
                     THEN <<StartSound>>
                     ELSE IF typeOf(steps, state.currentStepIndex) = "rest"
                          THEN <<LockSound>>
                          ELSE <<>>]
    ELSE [refs |-> refs, sounds |-> <<>>]

\* the transition cue effect: a sound by the type of the phase entered
transitionCueEffect(refs, steps, state) ==
    IF state.currentStepIndex # refs.lastStepIndex
    THEN [refs |-> [refs EXCEPT !.lastStepIndex = state.currentStepIndex,
                                !.halfCueIndex = Null],
          sounds |-> IF typeOf(steps, state.currentStepIndex) = "exercise"
                     THEN <<StartSound>>
                     ELSE IF typeOf(steps, state.currentStepIndex) = "rest"
                          THEN <<LockSound>>
                          ELSE <<>>]
    ELSE [refs |-> refs, sounds |-> <<>>]

\* clearCountdownTimeouts that clears nothing
clearCountdownTimeouts_KeepAll(timeouts) == timeouts

\* clearCountdownTimeouts: what is left of the pending timeouts
clearCountdownTimeouts(timeouts) == {}

\* scheduleCountdownCue counting the delay from the next half second
scheduleCountdownCue_Late(delayMs, stepIndex, cueSecond, now) ==
    IF delayMs <= 0
    THEN {}
    ELSE {[at |-> now + delayMs + 500, stepIndex |-> stepIndex, cueSecond |-> cueSecond]}

\* scheduleCountdownCue: the timeout it adds, none for a delay that is not
\* positive; a timeout is due at `at`
scheduleCountdownCue(delayMs, stepIndex, cueSecond, now) ==
    IF delayMs <= 0
    THEN {}
    ELSE {[at |-> now + delayMs, stepIndex |-> stepIndex, cueSecond |-> cueSecond]}

\* the callback of a timeout of scheduleCountdownCue
countdownCueTimeout(refs, state, timeout) ==
    IF state.status # "running" \/ state.currentStepIndex # timeout.stepIndex
    THEN [refs |-> refs, sounds |-> <<>>]
    ELSE IF refs.lastCountdownBeep = Some(timeout.cueSecond)
         THEN [refs |-> refs, sounds |-> <<>>]
         ELSE [refs |-> [refs EXCEPT !.lastCountdownBeep = Some(timeout.cueSecond)],
               sounds |-> <<BeepSound(timeout.cueSecond)>>]

\* Math.max(0, Math.ceil(remainingMs / 1000))
ceilSeconds(remainingMs) == Max2(0, (remainingMs + MsPerSec - 1) \div MsPerSec)

\* the countdown cue effect: the pending timeouts are cleared, the second
\* under way is beeped if it is one of the last three, and a timeout is set
\* for each later one
countdownCueEffect(refs, timeouts, steps, state, now) ==
    LET cleared == clearCountdownTimeouts(timeouts)
        quiet == [refs |-> refs, sounds |-> <<>>, timeouts |-> cleared]
    IN IF state.status # "running"
       THEN [quiet EXCEPT !.refs = [refs EXCEPT !.lastCountdownBeep = Null]]
       ELSE IF typeOf(steps, state.currentStepIndex) = "undefined"
       THEN quiet
       ELSE LET durationMs == steps[state.currentStepIndex + 1].durationSec * 1000
            IN IF durationMs <= 0 \/ state.stepStartedAt = Null
                  \/ state.stepStartedAt = Some(0)
               THEN quiet
               ELSE LET endDateMs == ValueOf(state.stepStartedAt) + durationMs
                        remainingMs == endDateMs - now
                        remainingSec == ceilSeconds(remainingMs)
                        inCountdown == remainingSec >= 1
                                         /\ remainingSec <= COUNTDOWN_CUE_SECONDS
                        beepNow == inCountdown
                                     /\ refs.lastCountdownBeep # Some(remainingSec)
                        startSecond == Min2(COUNTDOWN_CUE_SECONDS, remainingSec - 1)
                    IN IF remainingMs <= 0
                       THEN quiet
                       ELSE [refs |-> IF beepNow
                                      THEN [refs EXCEPT !.lastCountdownBeep =
                                                            Some(remainingSec)]
                                      ELSE refs,
                             sounds |-> IF beepNow
                                        THEN <<BeepSound(remainingSec)>>
                                        ELSE <<>>,
                             timeouts |->
                                 cleared \cup
                                 UNION {scheduleCountdownCue(
                                            (endDateMs - second * 1000) - now,
                                            state.currentStepIndex, second, now) :
                                        second \in 1..startSecond}]

\* the half cue effect: within HALF_CUE_WINDOW_MS after the midpoint of a
\* running exercise phase, once per value of halfCueIndexRef
halfCueEffect(refs, steps, state, now) ==
    IF state.status # "running"
          \/ typeOf(steps, state.currentStepIndex) # "exercise"
    THEN [refs |-> refs, sounds |-> <<>>]
    ELSE LET durationMs == steps[state.currentStepIndex + 1].durationSec * 1000
         IN IF durationMs <= 0 \/ state.stepStartedAt = Null
               \/ state.stepStartedAt = Some(0)
            THEN [refs |-> refs, sounds |-> <<>>]
            ELSE LET halfTimeMs == ValueOf(state.stepStartedAt) + durationMs \div 2
                     diff == now - halfTimeMs
                 IN IF diff >= 0 /\ diff <= HALF_CUE_WINDOW_MS
                       /\ refs.halfCueIndex # Some(state.currentStepIndex)
                    THEN [refs |-> [refs EXCEPT !.halfCueIndex =
                                                    Some(state.currentStepIndex)],
                          sounds |-> <<HalfSound>>]
                    ELSE [refs |-> refs, sounds |-> <<>>]

\* the countdown cue effect has a dependency that changed
countdownCueDeps(prev, next) ==
    \/ next.currentStepIndex # prev.currentStepIndex
    \/ next.status # prev.status
    \/ next.stepStartedAt # prev.stepStartedAt

\* The effects of the render that follows setTimerState(next), in the order
\* of the source, each run when one of its dependencies changed: the
\* transition cue, the reset of lastCountdownBeepRef, the countdown cue and
\* the half cue.  (The phase list does not change during a session.)
effectsAfter(refs, timeouts, steps, prev, next, now) ==
    LET indexChanged == next.currentStepIndex # prev.currentStepIndex
        transition == IF indexChanged
                      THEN transitionCueEffect(refs, steps, next)
                      ELSE [refs |-> refs, sounds |-> <<>>]
        reset == IF indexChanged
                 THEN [transition.refs EXCEPT !.lastCountdownBeep = Null]
                 ELSE transition.refs
        countdown == IF countdownCueDeps(prev, next)
                     THEN countdownCueEffect(reset, timeouts, steps, next, now)
                     ELSE [refs |-> reset, sounds |-> <<>>, timeouts |-> timeouts]
        half == IF countdownCueDeps(prev, next) \/ next.remainingMs # prev.remainingMs
                THEN halfCueEffect(countdown.refs, steps, next, now)
                ELSE [refs |-> countdown.refs, sounds |-> <<>>]
    IN [refs |-> half.refs,
        timeouts |-> countdown.timeouts,
        sounds |-> transition.sounds \o countdown.sounds \o half.sounds]

\* ------------------------------------------------------------------------
\* lib/time: clampDuration, buildPhases, getTotalDuration
\* ------------------------------------------------------------------------

\* longest step list of a schedule
MaxSteps == 2
\* largest repeatCount of a step
MaxRepeat == 2

\* A JavaScript number as a schedule carries it: a finite value, kept in
\* tenths of a second so that fractions exist, or a non-finite one (NaN,
\* Infinity, or a missing field, which Number.isFinite rejects alike).
Finite(tenths) == [finite |-> TRUE, tenths |-> tenths]
NonFinite == [finite |-> FALSE, tenths |-> 0]

\* a whole number of seconds as a JavaScript number
Seconds(n) == Finite(10 * n)

\* Math.round of a value in tenths: the nearest integer, halves upwards
round(tenths) == (tenths + 5) \div 10

\* the default range of clampDuration
MinDurationSec == 1
MaxDurationSec == 3600

\* clampDuration without its lower bound
clampDuration_NoLowerBound(value, min, max) ==
    IF ~value.finite THEN min ELSE Min2(max, round(value.tenths))

\* clampDuration(value, min = 1, max = 3600); the result is in whole seconds
clampDuration(value, min, max) ==
    IF ~value.finite THEN min ELSE Min2(max, Max2(min, round(value.tenths)))

\* A label is a tuple: <<l>> is the text l, and <<l, n>> the text of the
\* template `${l} (x${n})`.
RestLabel == <<"Rest">>

\* repLabel, numbering the repetitions from 0
repLabel_ZeroBased(step, rep, repeats) ==
    IF repeats > 1 THEN <<step.label, rep>> ELSE <<step.label>>

\* repLabel = repeats > 1 ? `${step.label} (x${rep + 1})` : step.label
repLabel(step, rep, repeats) ==
    IF repeats > 1 THEN <<step.label, rep + 1>> ELSE <<step.label>>

\* schedule.steps[schedule.steps.length - 1]?.id === step.id
sameIdAsLastStep(steps, step) ==
    Len(steps) > 0 /\ steps[Len(steps)].id = step.id

\* the body of the for loop of buildPhases, from repetition rep on: the
\* phases one step pushes
RECURSIVE pushRepetitions(_, _, _, _, _)
pushRepetitions(steps, step, rest, rep, repeats) ==
    IF rep >= repeats
    THEN <<>>
    ELSE LET exercise == [label |-> repLabel(step, rep, repeats),
                          durationSec |-> clampDuration(step.durationSec,
                                                        MinDurationSec, MaxDurationSec),
                          type |-> "exercise"]
             isLastOverall == rep = repeats - 1 /\ sameIdAsLastStep(steps, step)
             pushed == IF rest > 0 /\ ~isLastOverall
                       THEN <<exercise, [label |-> RestLabel, durationSec |-> rest,
                                         type |-> "rest"]>>
                       ELSE <<exercise>>
         IN pushed \o pushRepetitions(steps, step, rest, rep + 1, repeats)

\* schedule.steps.forEach, from step i on (1-based)
RECURSIVE forEachStep(_, _, _)
forEachStep(steps, rest, i) ==
    IF i > Len(steps)
    THEN <<>>
    ELSE LET step == steps[i]
             repeats == Max2(1, step.repeatCount)
         IN pushRepetitions(steps, step, rest, 0, repeats)
                \o forEachStep(steps, rest, i + 1)

\* schedule.restBetweenSec ?? 0
restOrZero(schedule) ==
    IF schedule.restBetweenSec = Null THEN Seconds(0) ELSE ValueOf(schedule.restBetweenSec)

buildPhases(schedule) ==
    LET rest == clampDuration(restOrZero(schedule), 0, MaxDurationSec)
    IN forEachStep(schedule.steps, rest, 1)

\* reduce((sum, phase) => sum + clampDuration(phase.durationSec), 0)
RECURSIVE sumClamped(_, _)
sumClamped(list, i) ==
    IF i > Len(list)
    THEN 0
    ELSE clampDuration(Seconds(list[i].durationSec), MinDurationSec, MaxDurationSec)
             + sumClamped(list, i + 1)

getTotalDuration(schedule) == sumClamped(buildPhases(schedule), 1)

\* the step ids, labels, durations and rests a stored schedule can carry
StepIds == {"a", "b"}
LabelOf(id) == IF id = "a" THEN "Push-ups" ELSE "Plank"
DurationInputs ==
    {NonFinite, Finite(-15), Finite(0), Seconds(1), Finite(15), Seconds(2), Finite(36006)}
RestInputs ==
    {Null, Some(NonFinite), Some(Finite(-15)), Some(Seconds(0)), Some(Finite(4)),
     Some(Seconds(1)), Some(Seconds(2)), Some(Finite(36006))}

StepInputs ==
    {[id |-> i, label |-> LabelOf(i), durationSec |-> d, repeatCount |-> r] :
        i \in StepIds, d \in DurationInputs, r \in 1..MaxRepeat}

ScheduleInputs == [steps : SeqsUpTo(StepInputs, MaxSteps), restBetweenSec : RestInputs]

\* the schedule of a session that builds no phases
NoSchedule == [steps |-> <<>>, restBetweenSec |-> Null]

\* ------------------------------------------------------------------------
\* screens/PlayerScreen: the completion effects
MaxRuns == 2

\* the reset of completionRecordedRef that never clears it
completionResetEffect_Never(recorded, status) == recorded

\* the effect that clears completionRecordedRef while the status is not
\* finished: the value of the ref after it
completionResetEffect(recorded, status) ==
    IF status # "finished" THEN FALSE ELSE recorded

\* the effect that records the completion: the value of the ref after it
\* and the number of calls of recordCompletion it made
completionRecordEffect(recorded, loaded, status) ==
    IF ~loaded \/ status # "finished"
    THEN [recorded |-> recorded, calls |-> 0]
    ELSE IF recorded
         THEN [recorded |-> recorded, calls |-> 0]
         ELSE [recorded |-> TRUE, calls |-> 1]

\* the two effects after a render with the status next, each run when the
\* status is not the status prev of the render before
completionEffectsAfter(recorded, loaded, prev, next) ==
    IF next = prev
    THEN [recorded |-> recorded, calls |-> 0]
    ELSE completionRecordEffect(completionResetEffect(recorded, next), loaded, next)

\* ------------------------------------------------------------------------
\* store/completions: completionsReducer, sanitizeCompletion and
\* recordCompletion
\* ------------------------------------------------------------------------

\* the store before its load has settled, as the provider renders it;
\* status is that of the reducer, rendered the status of the latest render
\* of the provider, with which recordCompletion was made; returned and
\* calls are what recordCompletion returned last and how often it was
\* called; ids counts the ids generateId has given out
initialState ==
    [status |-> "loading", rendered |-> "loading", completions |-> <<>>,
     returned |-> Null, calls |-> 0, ids |-> 0]

\* completionsReducer
completionsReducer(state, action) ==
    IF action.type = "loaded"
    THEN [state EXCEPT !.completions = action.payload, !.status = "ready"]
    ELSE IF action.type = "update"
    THEN IF state.status # "ready"
         THEN state
         ELSE [state EXCEPT !.completions = <<action.prepared>> \o @]
    ELSE IF action.type = "error"
    THEN [state EXCEPT !.status = "error"]
    ELSE state

\* generateId('completion'): an id not given out before
generateId(state) == <<"completion", state.ids + 1>>

AtLeastOneSecond(step) == step.durationSec >= 1

\* sanitizeCompletion of a completion with the id given: its steps with
\* their durations clamped, null when no step is left
sanitizeCompletion(completion, id) ==
    LET steps == SelectSeq([i \in DOMAIN completion.steps |->
                               [durationSec |->
                                   clampDuration(completion.steps[i].durationSec,
                                                 MinDurationSec, MaxDurationSec)]],
                           AtLeastOneSecond)
    IN IF Len(steps) = 0
       THEN Null
       ELSE Some([id |-> id, steps |-> Len(steps)])

\* recordCompletion putting the new entry after the others
recordCompletion_AtTheEnd(state, completion) ==
    LET called == [state EXCEPT !.calls = @ + 1]
        prepared == sanitizeCompletion(completion, generateId(state))
    IN IF state.rendered # "ready" \/ prepared = Null
       THEN [called EXCEPT !.returned = Null]
       ELSE [called EXCEPT !.completions =
                               IF state.status = "ready"
                               THEN @ \o <<ValueOf(prepared)>> ELSE @,
                           !.returned = Some(ValueOf(prepared).id),
                           !.ids = @ + 1]

\* recordCompletion, made by the render that saw the status rendered: the
\* store after the call and the update it dispatched
recordCompletion(state, completion) ==
    LET called == [state EXCEPT !.calls = @ + 1]
        prepared == sanitizeCompletion(completion, generateId(state))
    IN IF state.rendered # "ready"
       THEN [called EXCEPT !.returned = Null]
       ELSE IF prepared = Null
       THEN [called EXCEPT !.returned = Null, !.ids = @ + 1]
       ELSE [completionsReducer(called, [type |-> "update",
                                         prepared |-> ValueOf(prepared)])
                EXCEPT !.returned = Some(ValueOf(prepared).id),
                       !.ids = @ + 1]

\* ------------------------------------------------------------------------
\* hooks/usePreStartCountdown
MaxCountdownSeconds == 2
MaxPreStartHalfSeconds == 9

PRE_START_INTERVAL_MS == 1000
DEFAULT_GET_READY_DURATION_MS == 1500

\* Math.floor
floor(value) == value.tenths \div 10

\* Math.max(1, Math.floor(countdownSeconds))
resolvedCountdownSeconds(countdownSeconds) == Max2(1, floor(countdownSeconds))

\* Math.max(1, Math.ceil(remainingMs / PRE_START_INTERVAL_MS))
countdownValueOf(remainingMs) ==
    Max2(1, (remainingMs + PRE_START_INTERVAL_MS - 1) \div PRE_START_INTERVAL_MS)

\* the hook before its effect has run
preStartMounted(enabled, countdownSeconds, getReadyDurationMs) ==
    [enabled |-> enabled, mounted |-> TRUE,
     countdownSeconds |-> countdownSeconds,
     getReadyDurationMs |-> getReadyDurationMs,
     countdownStartedRef |-> FALSE, lastCountdownValueRef |-> Null,
     countdownIntervalRef |-> FALSE, isCancelled |-> FALSE,
     task |-> "none", countdownStartAtMs |-> 0, countdownEndAtMs |-> 0,
     preStartCountdown |-> Null, isPreStartActive |-> FALSE]

\* what a call of the hook's code leaves: the state of the hook and the
\* values onTick and onComplete were called with, in order
Called(state, onTick, onComplete) ==
    [state |-> state, onTick |-> onTick, onComplete |-> onComplete]

\* clearCountdownInterval
clearCountdownInterval(p) == [p EXCEPT !.countdownIntervalRef = FALSE]

\* the effect, run at mount and when enabled changes
preStartEffect(p) ==
    IF ~p.enabled
    THEN [clearCountdownInterval(p) EXCEPT !.countdownStartedRef = FALSE,
                                           !.lastCountdownValueRef = Null,
                                           !.preStartCountdown = Null,
                                           !.isPreStartActive = FALSE]
    ELSE IF p.countdownStartedRef
    THEN p
    ELSE [p EXCEPT !.countdownStartedRef = TRUE, !.isCancelled = FALSE,
                   !.lastCountdownValueRef = Null, !.preStartCountdown = Null,
                   !.isPreStartActive = TRUE, !.task = "scheduled"]

\* the cleanup that leaves the interval of the heartbeat set
preStartCleanup_KeepInterval(p) ==
    [p EXCEPT !.isCancelled = TRUE,
              !.task = IF p.task = "scheduled" THEN "none" ELSE p.task]

\* the cleanup of the effect; interactionTask.cancel() drops the task
\* that has not begun, and a cleared interval calls nothing
preStartCleanup(p) ==
    [clearCountdownInterval(p) EXCEPT !.isCancelled = TRUE,
                                      !.task = IF p.task \in {"scheduled", "counting"}
                                               THEN "none" ELSE p.task]

\* tick that calls onTick whatever value it called it with last
tick_NoMemory(p, now) ==
    IF p.isCancelled
    THEN Called(p, <<>>, <<>>)
    ELSE IF now < p.countdownStartAtMs
    THEN Called([p EXCEPT !.lastCountdownValueRef = Null, !.preStartCountdown = Null],
                <<>>, <<>>)
    ELSE IF p.countdownEndAtMs - now <= 0
    THEN Called([clearCountdownInterval(p) EXCEPT !.preStartCountdown = Null,
                                                  !.isPreStartActive = FALSE,
                                                  !.task = "settled"],
                <<>>, <<now>>)
    ELSE LET countdownValue == countdownValueOf(p.countdownEndAtMs - now)
         IN Called([p EXCEPT !.lastCountdownValueRef = Some(countdownValue),
                             !.preStartCountdown = Some(countdownValue)],
                   <<countdownValue>>, <<>>)

\* tick, the callback of the heartbeat, at time now
tick(p, now) ==
    IF p.isCancelled
    THEN Called(p, <<>>, <<>>)
    ELSE IF now < p.countdownStartAtMs
    THEN Called([p EXCEPT !.lastCountdownValueRef = Null, !.preStartCountdown = Null],
                <<>>, <<>>)
    ELSE IF p.countdownEndAtMs - now <= 0
    THEN Called([clearCountdownInterval(p) EXCEPT !.preStartCountdown = Null,
                                                  !.isPreStartActive = FALSE,
                                                  !.task = "settled"],
                <<>>, <<now>>)
    ELSE LET countdownValue == countdownValueOf(p.countdownEndAtMs - now)
         IN IF p.lastCountdownValueRef = Some(countdownValue)
            THEN Called(p, <<>>, <<>>)
            ELSE Called([p EXCEPT !.lastCountdownValueRef = Some(countdownValue),
                                  !.preStartCountdown = Some(countdownValue)],
                        <<countdownValue>>, <<>>)

\* startCountdown going on without a look at isCancelled after onPrepare
startCountdown_Unchecked(p, now) ==
    LET countdownStartAtMs == now + p.getReadyDurationMs
        countdownEndAtMs == countdownStartAtMs
                              + resolvedCountdownSeconds(p.countdownSeconds)
                                  * PRE_START_INTERVAL_MS
        first == tick([p EXCEPT !.countdownStartAtMs = countdownStartAtMs,
                                !.countdownEndAtMs = countdownEndAtMs], now)
    IN Called([first.state EXCEPT !.countdownIntervalRef = TRUE,
                                  !.task = "counting"],
              first.onTick, first.onComplete)

\* startCountdown from the end of onPrepare, at time now: the first tick
\* and the heartbeat
startCountdown(p, now) ==
    IF p.isCancelled
    THEN Called([p EXCEPT !.task = "none"], <<>>, <<>>)
    ELSE LET countdownStartAtMs == now + p.getReadyDurationMs
             countdownEndAtMs == countdownStartAtMs
                                   + resolvedCountdownSeconds(p.countdownSeconds)
                                       * PRE_START_INTERVAL_MS
             first == tick([p EXCEPT !.countdownStartAtMs = countdownStartAtMs,
                                     !.countdownEndAtMs = countdownEndAtMs], now)
         IN Called([first.state EXCEPT !.countdownIntervalRef = TRUE,
                                       !.task = "counting"],
                   first.onTick, first.onComplete)

\* ------------------------------------------------------------------------
\* hooks/useLiveActivity (on iOS, with the schedule of the route loaded)
MaxLiveSeconds == 2
MaxActivityEvents == 1

LIVE_ACTIVITY_RESYNC_ATTEMPTS == 5

\* what the calls of expo-live-activity do in a step: they return, or
\* those of one kind throw
LibraryWorks == [update |-> "ok", start |-> "ok", stop |-> "ok"]
LibraryOutcomes ==
    {LibraryWorks, [LibraryWorks EXCEPT !.update = "throws"],
     [LibraryWorks EXCEPT !.start = "throws"], [LibraryWorks EXCEPT !.stop = "throws"]}

\* the refs of the hook at mount, with the surface (nothing shown), the
\* calls of the library made by the step under way and whether an
\* exception left the hook
liveMounted ==
    [liveActivityIdRef |-> Null, liveActivityPinnedStateRef |-> Null,
     liveActivityResyncIntervalRef |-> Null, liveActivityResyncAttemptsRef |-> 0,
     shown |-> Null, pushes |-> <<>>, thrown |-> FALSE]

\* a step of the hook begins
entering(c) == [c EXCEPT !.pushes = <<>>, !.thrown = FALSE]

\* the state of the surface for a TimerState: the label of its phase and
\* the time its phase ends
buildLiveActivityState(steps, state, now) ==
    IF typeOf(steps, state.currentStepIndex) = "undefined"
    THEN Null
    ELSE LET current == steps[state.currentStepIndex + 1]
             durationMs == current.durationSec * 1000
             stepStartedAt ==
                 IF state.stepStartedAt # Null
                 THEN state.stepStartedAt
                 ELSE IF state.status = "running"
                      THEN Some(now - Max2(0, durationMs - state.remainingMs))
                      ELSE Null
             endDateMs ==
                 IF stepStartedAt # Null /\ stepStartedAt # Some(0)
                 THEN ValueOf(stepStartedAt) + durationMs
                 ELSE now + Max2(0, state.remainingMs)
         IN IF durationMs <= 0
            THEN Null
            ELSE Some([subtitle |-> Some(current.label), date |-> Some(endDateMs)])

\* the state stopLiveActivity falls back to: the title alone
TitleOnly == [subtitle |-> Null, date |-> Null]

Push(call, state) == [call |-> call, state |-> state]

clearLiveActivityResync(c) ==
    [c EXCEPT !.liveActivityResyncIntervalRef = Null,
              !.liveActivityResyncAttemptsRef = 0]

\* startLiveActivity(stateOverride): the pinned state goes first while the
\* app is not active; the activity is updated, or started if there is none
\* or the update threw
startLiveActivity(c, lib, appState, steps, stateOverride, now) ==
    LET sourceState == IF appState # "active" /\ c.liveActivityPinnedStateRef # Null
                       THEN ValueOf(c.liveActivityPinnedStateRef)
                       ELSE stateOverride
        state == buildLiveActivityState(steps, sourceState, now)
        started == [c EXCEPT !.liveActivityIdRef = Some("activity"),
                             !.shown = state,
                             !.pushes = @ \o <<Push("start", ValueOf(state))>>]
    IN IF state = Null
       THEN c
       ELSE IF c.liveActivityIdRef # Null /\ lib.update = "ok"
       THEN [c EXCEPT !.shown = state,
                      !.pushes = @ \o <<Push("update", ValueOf(state))>>]
       ELSE IF lib.start = "throws"
       THEN [c EXCEPT !.liveActivityIdRef = Null, !.thrown = TRUE]
       ELSE started

\* scheduleLiveActivityResync that sets the interval in any app state
scheduleLiveActivityResync_AnyAppState(c, appState, stepIndex) ==
    [clearLiveActivityResync(c) EXCEPT
        !.liveActivityResyncIntervalRef = Some(stepIndex)]

\* scheduleLiveActivityResync(stepIndex): the interval remembers stepIndex
scheduleLiveActivityResync(c, appState, stepIndex) ==
    IF appState = "active"
    THEN clearLiveActivityResync(c)
    ELSE [clearLiveActivityResync(c) EXCEPT
             !.liveActivityResyncIntervalRef = Some(stepIndex)]

\* the callback of the resync interval that does not look at the index
resyncCallback_AnyIndex(c, lib, appState, steps, latestState, now) ==
    IF latestState.status # "running"
    THEN clearLiveActivityResync(c)
    ELSE IF c.liveActivityResyncAttemptsRef >= LIVE_ACTIVITY_RESYNC_ATTEMPTS
    THEN clearLiveActivityResync(c)
    ELSE IF appState = "active"
    THEN c
    ELSE startLiveActivity(
             [c EXCEPT !.liveActivityResyncAttemptsRef = @ + 1],
             lib, appState, steps, latestState, now)

\* the callback of the resync interval that does not count its attempts
resyncCallback_Unbounded(c, lib, appState, steps, latestState, now) ==
    IF latestState.status # "running"
    THEN clearLiveActivityResync(c)
    ELSE IF Some(latestState.currentStepIndex) # c.liveActivityResyncIntervalRef
    THEN clearLiveActivityResync(c)
    ELSE IF appState = "active"
    THEN c
    ELSE startLiveActivity(
             [c EXCEPT !.liveActivityResyncAttemptsRef = Min2(@ + 1, 9)],
             lib, appState, steps, latestState, now)

\* the callback of the resync interval
resyncCallback(c, lib, appState, steps, latestState, now) ==
    IF latestState.status # "running"
    THEN clearLiveActivityResync(c)
    ELSE IF Some(latestState.currentStepIndex) # c.liveActivityResyncIntervalRef
    THEN clearLiveActivityResync(c)
    ELSE IF c.liveActivityResyncAttemptsRef >= LIVE_ACTIVITY_RESYNC_ATTEMPTS
    THEN clearLiveActivityResync(c)
    ELSE IF appState = "active"
    THEN c
    ELSE startLiveActivity(
             [c EXCEPT !.liveActivityResyncAttemptsRef = @ + 1],
             lib, appState, steps, latestState, now)

\* stopLiveActivity(stateOverride)
stopLiveActivity(c, lib, steps, stateOverride, now) ==
    LET built == buildLiveActivityState(steps, stateOverride, now)
        state == IF built # Null THEN ValueOf(built) ELSE TitleOnly
    IN IF c.liveActivityIdRef = Null
       THEN c
       ELSE IF lib.stop = "throws"
       THEN [c EXCEPT !.thrown = TRUE]
       ELSE [c EXCEPT !.liveActivityIdRef = Null, !.shown = Null,
                      !.pushes = @ \o <<Push("stop", state)>>]

\* handleAppStateChange that does not tick when the app becomes active
handleAppStateChange_NoTick(c, lib, nextState, steps, latestState, now) ==
    IF nextState = "active"
    THEN LET cleared == clearLiveActivityResync(
                            [c EXCEPT !.liveActivityPinnedStateRef = Null])
         IN [timerState |-> latestState,
             live |-> IF latestState.status = "running"
                      THEN startLiveActivity(cleared, lib, nextState, steps,
                                             latestState, now)
                      ELSE stopLiveActivity(cleared, lib, steps, latestState, now)]
    ELSE [timerState |-> latestState,
          live |-> IF latestState.status = "running"
                   THEN scheduleLiveActivityResync(
                            startLiveActivity(
                                [c EXCEPT !.liveActivityPinnedStateRef =
                                              Some(latestState)],
                                lib, nextState, steps, latestState, now),
                            nextState, latestState.currentStepIndex)
                   ELSE [c EXCEPT !.liveActivityPinnedStateRef = Null]]

\* handleAppStateChange(nextState), the app state already set: the refs it
\* leaves and the TimerState it sets
handleAppStateChange(c, lib, nextState, steps, latestState, now) ==
    IF nextState = "active"
    THEN LET cleared == clearLiveActivityResync(
                            [c EXCEPT !.liveActivityPinnedStateRef = Null])
             nextTimerState == tickTimer(latestState, steps, now)
         IN [timerState |-> nextTimerState,
             live |-> IF nextTimerState.status = "running"
                      THEN startLiveActivity(cleared, lib, nextState, steps,
                                             nextTimerState, now)
                      ELSE stopLiveActivity(cleared, lib, steps, nextTimerState, now)]
    ELSE [timerState |-> latestState,
          live |-> IF latestState.status = "running"
                   THEN LET pushed == startLiveActivity(
                                          [c EXCEPT !.liveActivityPinnedStateRef =
                                                        Some(latestState)],
                                          lib, nextState, steps, latestState, now)
                        IN IF pushed.thrown
                           THEN pushed
                           ELSE scheduleLiveActivityResync(
                                    pushed, nextState, latestState.currentStepIndex)
                   ELSE [c EXCEPT !.liveActivityPinnedStateRef = Null]]

\* the status effect that starts an activity and never updates it
liveActivityStatusEffect_StartOnly(c, lib, appState, steps, state, now) ==
    IF state.status = "running"
    THEN IF appState = "active" /\ c.liveActivityIdRef = Null
         THEN startLiveActivity(c, lib, appState, steps, state, now)
         ELSE c
    ELSE IF appState = "active"
         THEN stopLiveActivity(clearLiveActivityResync(c), lib, steps, state, now)
         ELSE clearLiveActivityResync(c)

\* the status effect with the state of the render
liveActivityStatusEffect(c, lib, appState, steps, state, now) ==
    IF state.status = "running"
    THEN IF appState = "active"
         THEN startLiveActivity(c, lib, appState, steps, state, now)
         ELSE c
    ELSE IF appState = "active"
         THEN stopLiveActivity(clearLiveActivityResync(c), lib, steps, state, now)
         ELSE clearLiveActivityResync(c)

\* the status effect has a dependency that changed
liveActivityDeps(prev, next) ==
    \/ next.currentStepIndex # prev.currentStepIndex
    \/ next.status # prev.status
    \/ next.stepStartedAt # prev.stepStartedAt

\* the listener of the activity updates, told that the activity of
\* liveActivityIdRef is stale, ended or dismissed
activityUpdatesListener(c, lib, appState, steps, latestState, now) ==
    LET dropped == [c EXCEPT !.liveActivityIdRef = Null]
    IN IF latestState.status # "running"
       THEN dropped
       ELSE LET pushed == startLiveActivity(dropped, lib, appState, steps,
                                            latestState, now)
            IN IF pushed.thrown
               THEN pushed
               ELSE scheduleLiveActivityResync(pushed, appState,
                                               latestState.currentStepIndex)

VARIABLES
    phases,       \* the phase list of the session (phasesRef.current)
    timerState,   \* the TimerState of the session
    last,         \* the transition that produced timerState: its name, the
                  \* now it was given, and the status and phase index of
                  \* the state it was applied to (createInitial takes no
                  \* state: those of its own result)
    schedule,     \* the schedule handed to buildPhases
    built,        \* the phases buildPhases returned for it, null before
    clock,        \* Date.now()
    refs,         \* lastStepIndexRef, lastCountdownBeepRef, halfCueIndexRef
    countdownTimeouts,  \* the pending timeouts of countdownTimeoutsRef
    played,       \* the sounds played by the latest step, in order
    heard,        \* what was played so far: beeps per second since the
                  \* phase index last changed (occupancy) and since the
                  \* countdown cue effect last ran (segment), with the time
                  \* of each; when the segment began and whether it began
                  \* at the top of the phase; half cues since the phase was
                  \* last begun from its top (run)
    scheduleLoaded,         \* the schedule of the route is in the store
    completionRecordedRef,  \* completionRecordedRef.current
    recordCompletionCalls,  \* the calls of recordCompletion so far
    finishedRuns, \* how often the status became finished so far
    store,        \* the store of the completions: the state of its
                  \* reducer, the status its latest render saw, and the
                  \* calls of recordCompletion
    preStart,     \* usePreStartCountdown: its props, refs and state, the
                  \* isCancelled of the effect and where startCountdown is
    appState,     \* appStateRef.current
    live,         \* useLiveActivity: its refs, what the surface shows, the
                  \* calls of the library made by the latest step, and
                  \* whether an exception left the hook in it
    liveLog,      \* the pushes of the callback of the resync interval
                  \* since the interval was set; the activity updates so
                  \* far; whether an exception ever left the hook
    preStartLog,  \* the calls of onTick and onComplete so far, each with
                  \* its time and whether the countdown was cancelled by
                  \* then; the time startCountdown read the clock and the
                  \* time of the latest call of tick
    timerStateRef,  \* timerStateRef.current, where the effect that copies
                  \* the TimerState into it runs after the render
    interval      \* the interval of the tick effect is set

vars == <<phases, timerState, last, schedule, built,
          clock, refs, countdownTimeouts, played, heard,
          scheduleLoaded, completionRecordedRef, recordCompletionCalls,
          finishedRuns, store, preStart, preStartLog, appState, live, liveLog,
          timerStateRef, interval>>

timerVars == <<phases, timerState, last>>
builderVars == <<schedule, built>>
cueVars == <<clock, refs, countdownTimeouts, played, heard>>
completionVars == <<scheduleLoaded, completionRecordedRef, recordCompletionCalls,
                    finishedRuns, store>>
\* the variables of the parts of the screen the other specifications leave
\* at rest
preStartVars == <<preStart, preStartLog>>
liveVars == <<appState, live, liveLog>>
sessionVars == <<timerStateRef, interval>>
sideVars == <<completionVars, preStartVars, liveVars, sessionVars>>

\* the phase builder at rest
BuilderIdle == schedule = NoSchedule /\ built = Null

NoBeeps == [k \in 1..COUNTDOWN_CUE_SECONDS |-> 0]
NoBeepTimes == [k \in 1..COUNTDOWN_CUE_SECONDS |-> Null]

\* nothing heard yet at time now
NothingHeard(now) ==
    [occupancy |-> NoBeeps, segment |-> NoBeeps, at |-> NoBeepTimes,
     since |-> now, fromTop |-> TRUE, halves |-> 0]

\* the cues of a session that plays none
CuesIdle ==
    /\ clock = 0
    /\ refs = initialRefs(createInitialTimerState(<<>>))
    /\ countdownTimeouts = {}
    /\ played = <<>>
    /\ heard = NothingHeard(0)

\* the completion effects of a session that is not watched
CompletionIdle ==
    /\ scheduleLoaded = TRUE
    /\ completionRecordedRef = FALSE
    /\ recordCompletionCalls = 0
    /\ finishedRuns = 0
    /\ store = initialState

NoPreStartCalls ==
    [onTick |-> <<>>, onComplete |-> <<>>, startedAt |-> Null, lastBeatAt |-> Null]

\* the hook of a screen opened without countdown
PreStartIdle ==
    /\ preStart = preStartEffect(preStartMounted(FALSE, Seconds(1), 0))
    /\ preStartLog = NoPreStartCalls

NothingPushed == [loopPushes |-> 0, events |-> 0, uncaught |-> FALSE]

\* the hook of a session that is not watched
LiveIdle ==
    /\ appState = "active"
    /\ live = liveMounted
    /\ liveLog = NothingPushed

\* the specifications that run the effects of a render with the step that
\* caused it read timerState for timerStateRef.current and leave the tick interval to the status
SessionIdle ==
    /\ timerStateRef = createInitialTimerState(<<>>)
    /\ interval = FALSE

SidesIdle == CompletionIdle /\ PreStartIdle /\ LiveIdle /\ SessionIdle

Applied(op, now, pre) ==
    [op |-> op, now |-> now, status |-> pre.status, index |-> pre.currentStepIndex]

\* useState(() => createInitialTimerState(phases))
Init ==
    /\ phases \in PhaseLists
    /\ timerState = createInitialTimerState(phases)
    /\ last = Applied("createInitial", 0, timerState)
    /\ BuilderIdle
    /\ CuesIdle
    /\ SidesIdle

\* the reset effect: a new phase list replaces the TimerState
PhasesChanged ==
    \E p \in PhaseLists :
        /\ p # phases
        /\ phases' = p
        /\ timerState' = createInitialTimerState(p)
        /\ last' = Applied("createInitial", 0, timerState')
        /\ UNCHANGED <<builderVars, cueVars, sideVars>>

Start ==
    \E now \in NowSet :
        /\ timerState' = startTimer(phases, now)
        /\ last' = Applied("start", now, timerState)
        /\ UNCHANGED <<phases, builderVars, cueVars, sideVars>>

Restart ==
    \E now \in NowSet :
        /\ timerState' = restartTimer(phases, now)
        /\ last' = Applied("restart", now, timerState)
        /\ UNCHANGED <<phases, builderVars, cueVars, sideVars>>

Pause ==
    \E now \in NowSet :
        /\ timerState' = pauseTimer(timerState, phases, now)
        /\ last' = Applied("pause", now, timerState)
        /\ UNCHANGED <<phases, builderVars, cueVars, sideVars>>

Resume ==
    \E now \in NowSet :
        /\ timerState' = resumeTimer(timerState, phases, now)
        /\ last' = Applied("resume", now, timerState)
        /\ UNCHANGED <<phases, builderVars, cueVars, sideVars>>

Tick ==
    \E now \in NowSet :
        /\ timerState' = tickTimer(timerState, phases, now)
        /\ last' = Applied("tick", now, timerState)
        /\ UNCHANGED <<phases, builderVars, cueVars, sideVars>>

Next_ ==
    \E now \in NowSet :
        /\ timerState' = nextStep(timerState, phases, now)
        /\ last' = Applied("next", now, timerState)
        /\ UNCHANGED <<phases, builderVars, cueVars, sideVars>>

Previous ==
    \E now \in NowSet :
        /\ timerState' = previousStep(timerState, phases, now)
        /\ last' = Applied("previous", now, timerState)
        /\ UNCHANGED <<phases, builderVars, cueVars, sideVars>>

\* the exercise list only offers the phases of the list
SelectPhase ==
    \E k \in 0..(Len(phases) - 1) :
        /\ timerState' = selectPhase(timerState, phases, k)
        /\ last' = Applied("selectPhase", k, timerState)
        /\ UNCHANGED <<phases, builderVars, cueVars, sideVars>>

Next ==
    \/ PhasesChanged
    \/ Start
    \/ Restart
    \/ Pause
    \/ Resume
    \/ Tick
    \/ Next_
    \/ Previous
    \/ SelectPhase

Spec == Init /\ [][Next]_vars

\* ------------------------------------------------------------------------
\* The phase builder on its own: a schedule comes in, buildPhases is applied
\* ------------------------------------------------------------------------

\* the timer of a session without phases
TimerIdle ==
    /\ phases = <<>>
    /\ timerState = createInitialTimerState(<<>>)
    /\ last = Applied("createInitial", 0, timerState)

InitPhases ==
    /\ schedule \in ScheduleInputs
    /\ built = Null
    /\ TimerIdle
    /\ CuesIdle
    /\ SidesIdle

\* useMemo(() => buildPhases(schedule))
BuildPhases ==
    /\ built = Null
    /\ built' = Some(buildPhases(schedule))
    /\ UNCHANGED <<schedule, timerVars, cueVars, sideVars>>

NextPhases == BuildPhases

SpecPhases == InitPhases /\ [][NextPhases]_vars

\* ------------------------------------------------------------------------
\* The cues of a session: the handlers of the player screen, the tick
\* interval, the countdown timeouts and the passing of time
\* ------------------------------------------------------------------------

\* Date.now() when the screen mounts (any positive time)
MountedAt == MsPerSec

\* the steps of a session: one repetition each and ids of their own; they
\* last a second, but for the last, which may last a second more than the
\* countdown
StepIdAt(i) == IF i = 1 THEN "a" ELSE "b" \o ToString(i)
CueLastDurations == {Seconds(1), Seconds(COUNTDOWN_CUE_SECONDS + 1)}
CueRests == {Null, Some(Seconds(1))}
CueSchedules ==
    UNION {{[steps |-> [i \in 1..n |->
                           [id |-> StepIdAt(i), label |-> LabelOf(StepIdAt(i)),
                            durationSec |-> IF i = n THEN d ELSE Seconds(1),
                            repeatCount |-> 1]],
             restBetweenSec |-> r] :
               d \in CueLastDurations, r \in CueRests} : n \in 1..MaxSteps}

\* the phase lists of the sessions
CuePhaseLists == {buildPhases(sch) : sch \in CueSchedules}

\* how often a sound occurs among the sounds played
timesPlayed(sounds, sound) == Cardinality({i \in DOMAIN sounds : sounds[i] = sound})

\* what was heard, after the step op took the state from prev to next at
\* time now and played sounds
Listen(h, prev, next, op, sounds, now) ==
    LET newOccupancy == next.currentStepIndex # prev.currentStepIndex
        newSegment == countdownCueDeps(prev, next)
        newRun == newOccupancy
                    \/ op \in {"start", "restart", "next", "previous", "selectPhase"}
        beeps(k) == timesPlayed(sounds, BeepSound(k))
    IN [occupancy |-> [k \in 1..COUNTDOWN_CUE_SECONDS |->
                          Min2(2, (IF newOccupancy THEN 0 ELSE h.occupancy[k]) + beeps(k))],
        segment |-> [k \in 1..COUNTDOWN_CUE_SECONDS |->
                        Min2(2, (IF newSegment THEN 0 ELSE h.segment[k]) + beeps(k))],
        at |-> [k \in 1..COUNTDOWN_CUE_SECONDS |->
                   IF beeps(k) > 0 THEN Some(now)
                   ELSE IF newSegment THEN Null ELSE h.at[k]],
        since |-> IF newSegment THEN now ELSE h.since,
        fromTop |-> IF newSegment THEN op # "resume" ELSE h.fromTop,
        halves |-> Min2(2, (IF newRun THEN 0 ELSE h.halves)
                               + timesPlayed(sounds, HalfSound))]

InitCues ==
    /\ phases \in CuePhaseLists
    /\ timerState = createInitialTimerState(phases)
    /\ last = Applied("createInitial", MountedAt, timerState)
    /\ BuilderIdle
    /\ clock = MountedAt
    /\ refs = initialRefs(timerState)
    /\ countdownTimeouts = {}
    /\ played = <<>>
    /\ heard = NothingHeard(MountedAt)
    /\ SidesIdle

\* setTimerState(next) by the step op, which itself plays handlerSounds, and
\* the render that follows
Commit(op, arg, next, handlerSounds) ==
    LET after == effectsAfter(refs, countdownTimeouts, phases, timerState, next, clock)
        sounds == handlerSounds \o after.sounds
    IN /\ timerState' = next
       /\ last' = Applied(op, arg, timerState)
       /\ refs' = after.refs
       /\ countdownTimeouts' = after.timeouts
       /\ played' = sounds
       /\ heard' = Listen(heard, timerState, next, op, sounds, clock)
       /\ UNCHANGED <<phases, clock, builderVars, sideVars>>

\* the controls are shown until the session has finished
ControlsShown == timerState.status # "finished" /\ Len(phases) > 0

handlePrimaryControl ==
    /\ ControlsShown
    /\ IF timerState.status = "running"
       THEN Commit("pause", clock, pauseTimer(timerState, phases, clock), <<>>)
       ELSE IF timerState.status = "paused"
       THEN Commit("resume", clock, resumeTimer(timerState, phases, clock), <<>>)
       ELSE Commit("start", clock, startTimer(phases, clock),
                   IF typeOf(phases, 0) = "exercise" THEN <<StartSound>> ELSE <<>>)

\* Restart is one of the actions shown while paused
handleRestart ==
    /\ ControlsShown
    /\ timerState.status = "paused"
    /\ Commit("restart", clock, restartTimer(phases, clock), <<>>)

handleNext ==
    /\ ControlsShown
    /\ Commit("next", clock, nextStep(timerState, phases, clock), <<>>)

\* Prev is disabled on the first phase
handlePrev ==
    /\ ControlsShown
    /\ timerState.currentStepIndex # 0
    /\ Commit("previous", clock, previousStep(timerState, phases, clock), <<>>)

\* the exercise list offers the exercise phases
handleSelectPhase ==
    /\ ControlsShown
    /\ \E k \in 0..(Len(phases) - 1) :
           /\ typeOf(phases, k) = "exercise"
           /\ Commit("selectPhase", k, selectPhase(timerState, phases, k), <<>>)

\* the callback of the tick interval, which runs while the status is running
tickInterval ==
    /\ timerState.status = "running"
    /\ Commit("tick", clock, tickTimer(timerState, phases, clock), <<>>)

\* a timeout of scheduleCountdownCue that is due fires, the earliest first
countdownTimeoutFires ==
    \E timeout \in countdownTimeouts :
        /\ timeout.at <= clock
        /\ \A other \in countdownTimeouts : other.at >= timeout.at
        /\ LET called == countdownCueTimeout(refs, timerState, timeout)
           IN /\ refs' = called.refs
              /\ played' = called.sounds
              /\ heard' = Listen(heard, timerState, timerState, "timeout",
                                 called.sounds, clock)
        /\ countdownTimeouts' = countdownTimeouts \ {timeout}
        /\ last' = Applied("timeout", clock, timerState)
        /\ UNCHANGED <<phases, timerState, clock, builderVars, sideVars>>

\* half a second passes; the timeouts that are due have fired
Advance ==
    /\ clock < MountedAt + MaxCueHalfSeconds * 500
    /\ \A timeout \in countdownTimeouts : timeout.at > clock
    /\ clock' = clock + 500
    /\ played' = <<>>
    /\ UNCHANGED <<timerVars, refs, countdownTimeouts, heard, builderVars, sideVars>>

NextCues ==
    \/ handlePrimaryControl
    \/ handleRestart
    \/ handleNext
    \/ handlePrev
    \/ handleSelectPhase
    \/ tickInterval
    \/ countdownTimeoutFires
    \/ Advance

SpecCues == InitCues /\ [][NextCues]_vars

\* ------------------------------------------------------------------------
\* The completion effects of a session: the TimerState goes through the
\* transitions in any order, and each render runs the effects whose
\* dependencies changed
\* ------------------------------------------------------------------------

\* a schedule of the store has a step at least, and a phase
SessionPhaseLists == PhaseLists \ {<<>>}

\* the screen mounts on the schedule of the route, or on none
InitCompletion ==
    /\ scheduleLoaded \in BOOLEAN
    /\ phases \in (IF scheduleLoaded THEN SessionPhaseLists ELSE {<<>>})
    /\ timerState = createInitialTimerState(phases)
    /\ last = Applied("createInitial", 0, timerState)
    /\ completionRecordedRef = FALSE
    /\ recordCompletionCalls = 0
    /\ finishedRuns = 0
    /\ store = initialState
    /\ BuilderIdle
    /\ CuesIdle
    /\ PreStartIdle
    /\ LiveIdle
    /\ SessionIdle

\* the states the transitions of lib/timer lead to at time now
TransitionsAt(now) ==
    {startTimer(phases, now), restartTimer(phases, now),
     pauseTimer(timerState, phases, now), resumeTimer(timerState, phases, now),
     tickTimer(timerState, phases, now), nextStep(timerState, phases, now),
     previousStep(timerState, phases, now)}
        \cup {selectPhase(timerState, phases, k) : k \in 0..(Len(phases) - 1)}

\* the render with the state next, after effects that left the ref at
\* recorded and made calls calls of recordCompletion
Rendered(next, recorded, calls) ==
    LET after == completionEffectsAfter(recorded, scheduleLoaded,
                                        timerState.status, next.status)
        entered == timerState.status # "finished" /\ next.status = "finished"
        left == timerState.status = "finished" /\ next.status # "finished"
    IN /\ left => finishedRuns < MaxRuns
       /\ timerState' = next
       /\ completionRecordedRef' = after.recorded
       /\ recordCompletionCalls' = recordCompletionCalls + calls + after.calls
       /\ finishedRuns' = finishedRuns + (IF entered THEN 1 ELSE 0)

\* setTimerState with the result of a transition
setTimerState ==
    \E now \in NowSet :
        \E next \in TransitionsAt(now) :
            /\ Rendered(next, completionRecordedRef, 0)
            /\ UNCHANGED <<phases, last, scheduleLoaded, store, builderVars, cueVars,
                           preStartVars, liveVars, sessionVars>>

\* the store hands out the schedule anew: the record effect runs again, the
\* phases are rebuilt and the reset effect replaces the TimerState
scheduleChanged ==
    /\ scheduleLoaded
    /\ \E p \in SessionPhaseLists :
           LET again == completionRecordEffect(completionRecordedRef, scheduleLoaded,
                                               timerState.status)
           IN /\ phases' = p
              /\ Rendered(createInitialTimerState(p), again.recorded, again.calls)
              /\ UNCHANGED <<last, scheduleLoaded, store, builderVars, cueVars,
                             preStartVars, liveVars, sessionVars>>

\* the store hands out recordCompletion anew: the record effect runs again
recordCompletionChanged ==
    LET again == completionRecordEffect(completionRecordedRef, scheduleLoaded,
                                        timerState.status)
    IN /\ completionRecordedRef' = again.recorded
       /\ recordCompletionCalls' = recordCompletionCalls + again.calls
       /\ UNCHANGED <<timerVars, scheduleLoaded, finishedRuns, store, builderVars,
                     cueVars, preStartVars, liveVars, sessionVars>>

NextCompletion ==
    \/ setTimerState
    \/ scheduleChanged
    \/ recordCompletionChanged

SpecCompletion == InitCompletion /\ [][NextCompletion]_vars

\* ------------------------------------------------------------------------
\* The pre-start countdown: the hook's effect, startCountdown, the
\* heartbeat, which may run at any time, and the passing of time
\* ------------------------------------------------------------------------

GetReadyInputs == {0, DEFAULT_GET_READY_DURATION_MS}
CountdownSecondsInputs ==
    {Finite(0), Finite(15)} \cup {Seconds(n) : n \in 1..MaxCountdownSeconds}

\* the last time of the session
PreStartEnd == MaxPreStartHalfSeconds * 500

\* the other variables of the cues, at rest
CueRefsIdle ==
    /\ refs = initialRefs(createInitialTimerState(<<>>))
    /\ countdownTimeouts = {}
    /\ played = <<>>
    /\ heard = NothingHeard(0)

\* the hook mounts and its effect runs
InitPreStart ==
    /\ \E enabled \in BOOLEAN, seconds \in CountdownSecondsInputs,
          getReady \in GetReadyInputs :
           preStart = preStartEffect(preStartMounted(enabled, seconds, getReady))
    /\ preStartLog = NoPreStartCalls
    /\ clock = 0
    /\ CueRefsIdle
    /\ TimerIdle
    /\ BuilderIdle
    /\ CompletionIdle
    /\ LiveIdle
    /\ SessionIdle

\* the calls a step of the hook made, added to those made so far
Logged(called, beat) ==
    [preStartLog EXCEPT
        !.onTick = @ \o [i \in 1..Len(called.onTick) |->
                            [value |-> called.onTick[i], at |-> clock,
                             cancelled |-> preStart.isCancelled]],
        !.onComplete = @ \o [i \in 1..Len(called.onComplete) |->
                                [at |-> clock, cancelled |-> preStart.isCancelled]],
        !.lastBeatAt = IF beat THEN Some(clock) ELSE @]

PreStartRest == UNCHANGED <<timerVars, builderVars, completionVars, liveVars, sessionVars,
                            refs, countdownTimeouts, played, heard>>

\* the task of runAfterInteractions begins: onPrepare is called
runAfterInteractions ==
    /\ preStart.task = "scheduled"
    /\ preStart' = [preStart EXCEPT !.task = IF preStart.isCancelled
                                              THEN "none" ELSE "preparing"]
    /\ UNCHANGED <<preStartLog, clock>>
    /\ PreStartRest

\* onPrepare has settled, resolved or rejected: startCountdown goes on
\* (a countdown begins early enough to end within the session)
onPrepareSettled ==
    /\ preStart.task = "preparing"
    /\ clock + preStart.getReadyDurationMs
          + resolvedCountdownSeconds(preStart.countdownSeconds) * PRE_START_INTERVAL_MS
            <= PreStartEnd
    /\ LET called == startCountdown(preStart, clock)
       IN /\ preStart' = called.state
          /\ preStartLog' = [Logged(called, ~preStart.isCancelled) EXCEPT
                                !.startedAt = IF preStart.isCancelled
                                              THEN @ ELSE Some(clock)]
    /\ UNCHANGED clock
    /\ PreStartRest

\* the interval of the heartbeat calls tick
heartbeat ==
    /\ preStart.countdownIntervalRef
    /\ LET called == tick(preStart, clock)
       IN /\ preStart' = called.state
          /\ preStartLog' = Logged(called, TRUE)
    /\ UNCHANGED clock
    /\ PreStartRest

\* enabled becomes false: the cleanup of the effect, and the effect again
disable ==
    /\ preStart.mounted
    /\ preStart.enabled
    /\ preStart' = preStartEffect([preStartCleanup(preStart) EXCEPT !.enabled = FALSE])
    /\ UNCHANGED <<preStartLog, clock>>
    /\ PreStartRest

\* the screen unmounts: the cleanup of the effect
unmount ==
    /\ preStart.mounted
    /\ preStart' = [(IF preStart.enabled THEN preStartCleanup(preStart) ELSE preStart)
                       EXCEPT !.mounted = FALSE]
    /\ UNCHANGED <<preStartLog, clock>>
    /\ PreStartRest

\* half a second passes
AdvancePreStart ==
    /\ clock < PreStartEnd
    /\ clock' = clock + 500
    /\ UNCHANGED <<preStartVars>>
    /\ PreStartRest

NextPreStart ==
    \/ runAfterInteractions
    \/ onPrepareSettled
    \/ heartbeat
    \/ disable
    \/ unmount
    \/ AdvancePreStart

SpecPreStart == InitPreStart /\ [][NextPreStart]_vars

\* time passes, the interaction manager runs its tasks, and an interval
\* that is set calls its callback again and again
SpecPreStartFair ==
    /\ SpecPreStart
    /\ WF_vars(AdvancePreStart)
    /\ WF_vars(runAfterInteractions)
    /\ WF_vars(heartbeat)

\* ------------------------------------------------------------------------
\* The live activity of a session: the controls while the app is active,
\* the tick interval, the changes of the app state, the resync interval,
\* the activity updates and the passing of time
\* ------------------------------------------------------------------------

AppStates == {"active", "inactive", "background"}

\* the app leaves the foreground through inactive and comes back from
\* inactive or from the background
NextAppStates(state) ==
    IF state = "active" THEN {"inactive"}
    ELSE IF state = "inactive" THEN {"background", "active"}
    ELSE {"active"}
ActivityStates == {"stale", "ended", "dismissed"}

LivePhaseLists == CuePhaseLists

\* the last time of the session
LiveEnd == MountedAt + MaxLiveSeconds * MsPerSec

InitLive ==
    /\ phases \in LivePhaseLists
    /\ timerState = createInitialTimerState(phases)
    /\ last = Applied("createInitial", MountedAt, timerState)
    /\ clock = MountedAt
    /\ appState = "active"
    /\ live = liveMounted
    /\ liveLog = NothingPushed
    /\ CueRefsIdle
    /\ BuilderIdle
    /\ CompletionIdle
    /\ PreStartIdle
    /\ SessionIdle

\* an exception that left the hook ended the session
SessionGoesOn == ~liveLog.uncaught

LiveRest == UNCHANGED <<phases, clock, builderVars, completionVars, preStartVars, sessionVars,
                        refs, countdownTimeouts, played, heard>>

\* what the log holds after a step that left the refs at c; scheduled:
\* the step may have called scheduleLiveActivityResync; byInterval: the
\* step is the callback of the resync interval; event: it is an activity
\* update
Noted(c, scheduled, byInterval, event) ==
    [loopPushes |-> IF scheduled \/ c.liveActivityResyncIntervalRef = Null
                    THEN 0
                    ELSE liveLog.loopPushes + (IF byInterval THEN Len(c.pushes) ELSE 0),
     events |-> liveLog.events + (IF event THEN 1 ELSE 0),
     uncaught |-> liveLog.uncaught \/ c.thrown]

\* setTimerState(next) by the step op, and the render that follows: the
\* status effect runs when one of its dependencies changed
LiveCommit(op, arg, next, c, lib, nextState, event) ==
    LET after == IF liveActivityDeps(timerState, next)
                 THEN liveActivityStatusEffect(c, lib, nextState, phases, next, clock)
                 ELSE c
    IN /\ timerState' = next
       /\ last' = Applied(op, arg, timerState)
       /\ appState' = nextState
       /\ live' = after
       /\ liveLog' = Noted(after, nextState # appState, FALSE, event)
       /\ LiveRest

\* what the controls shown lead to: the primary control, Restart while
\* paused, Next, Prev but on the first phase, and the exercises of the list
ControlResults ==
    LET result(op, arg, next) == [op |-> op, arg |-> arg, next |-> next]
    IN {IF timerState.status = "running"
        THEN result("pause", clock, pauseTimer(timerState, phases, clock))
        ELSE IF timerState.status = "paused"
        THEN result("resume", clock, resumeTimer(timerState, phases, clock))
        ELSE result("start", clock, startTimer(phases, clock))}
       \cup {result("restart", clock, restartTimer(phases, clock)) :
                 x \in {y \in {0} : timerState.status = "paused"}}
       \cup {result("next", clock, nextStep(timerState, phases, clock))}
       \cup {result("previous", clock, previousStep(timerState, phases, clock)) :
                 x \in {y \in {0} : timerState.currentStepIndex # 0}}
       \cup {result("selectPhase", k, selectPhase(timerState, phases, k)) :
                 k \in {j \in 0..(Len(phases) - 1) : typeOf(phases, j) = "exercise"}}

\* a control is pressed; the app is active
control(Library) ==
    /\ SessionGoesOn
    /\ appState = "active"
    /\ ControlsShown
    /\ \E lib \in Library, result \in ControlResults :
           LiveCommit(result.op, result.arg, result.next, entering(live), lib,
                      appState, FALSE)

\* the callback of the tick interval, which runs while the status is running
liveTick(Library) ==
    /\ SessionGoesOn
    /\ timerState.status = "running"
    /\ \E lib \in Library :
           LiveCommit("tick", clock, tickTimer(timerState, phases, clock),
                      entering(live), lib, appState, FALSE)

\* the app state changes
appStateChange(Library) ==
    /\ SessionGoesOn
    /\ \E lib \in Library, nextState \in NextAppStates(appState) :
        LET handled == handleAppStateChange(entering(live), lib, nextState, phases,
                                            timerState, clock)
        IN LiveCommit(nextState, clock, handled.timerState, handled.live, lib,
                      nextState, FALSE)

\* the resync interval calls its callback
resyncInterval(Library) ==
    /\ SessionGoesOn
    /\ live.liveActivityResyncIntervalRef # Null
    /\ \E lib \in Library :
           LET called == resyncCallback(entering(live), lib, appState, phases,
                                        timerState, clock)
           IN /\ live' = called
              /\ liveLog' = Noted(called, FALSE, TRUE, FALSE)
    /\ last' = Applied("resync", clock, timerState)
    /\ UNCHANGED <<timerState, appState>>
    /\ LiveRest

\* the activity of liveActivityIdRef goes stale, is ended or dismissed, and
\* the listener is told
activityUpdate(Library) ==
    /\ SessionGoesOn
    /\ live.liveActivityIdRef # Null
    /\ liveLog.events < MaxActivityEvents
    /\ \E lib \in Library, activityState \in ActivityStates :
           LET gone == [entering(live) EXCEPT
                           !.shown = IF activityState = "stale" THEN @ ELSE Null]
               called == activityUpdatesListener(gone, lib, appState, phases,
                                                 timerState, clock)
           IN /\ live' = called
              /\ liveLog' = Noted(called, TRUE, FALSE, TRUE)
    /\ last' = Applied("activityUpdate", clock, timerState)
    /\ UNCHANGED <<timerState, appState>>
    /\ LiveRest

\* a second passes; while the app is active the tick interval has run
AdvanceLive ==
    /\ SessionGoesOn
    /\ clock < LiveEnd
    /\ (appState = "active" /\ timerState.status = "running")
          => tickTimer(timerState, phases, clock) = timerState
    /\ clock' = clock + MsPerSec
    /\ live' = entering(live)
    /\ UNCHANGED <<timerVars, appState, liveLog, builderVars, completionVars,
                   preStartVars, sessionVars, refs, countdownTimeouts, played, heard>>

NextLive ==
    \/ control({LibraryWorks})
    \/ liveTick({LibraryWorks})
    \/ appStateChange({LibraryWorks})
    \/ resyncInterval({LibraryWorks})
    \/ activityUpdate({LibraryWorks})
    \/ AdvanceLive

\* the calls of the library return
SpecLive == InitLive /\ [][NextLive]_vars

NextLiveFailing ==
    \/ control(LibraryOutcomes)
    \/ liveTick(LibraryOutcomes)
    \/ appStateChange(LibraryOutcomes)
    \/ resyncInterval(LibraryOutcomes)
    \/ activityUpdate(LibraryOutcomes)
    \/ AdvanceLive

\* the calls of the library return or throw
SpecLiveFailing == InitLive /\ [][NextLiveFailing]_vars

\* ------------------------------------------------------------------------
\* The writers of the TimerState and timerStateRef: the effect that copies
\* the TimerState into the ref runs after the render, in a task of its own,
\* and React runs it before it takes up the next update; a change of the
\* app state is delivered between two tasks, and its handler reads the ref
\* as it is
\* ------------------------------------------------------------------------

InitRefs ==
    /\ phases \in LivePhaseLists
    /\ timerState = createInitialTimerState(phases)
    /\ timerStateRef = timerState
    /\ interval = FALSE
    /\ last = Applied("createInitial", MountedAt, timerState)
    /\ clock = MountedAt
    /\ appState = "active"
    /\ live = liveMounted
    /\ liveLog = NothingPushed
    /\ CueRefsIdle
    /\ BuilderIdle
    /\ CompletionIdle
    /\ PreStartIdle

\* the effects of the latest render have run
EffectsFlushed == timerStateRef = timerState

\* setTimerState(next) by the step op, which left the refs of the live
\* activity at c; the effects of the render are still to run
Written(op, arg, next, c, nextState) ==
    /\ preStartLog' = IF op = "countdownComplete"
                      THEN [preStartLog EXCEPT
                               !.onComplete = <<[at |-> clock, cancelled |-> FALSE]>>]
                      ELSE preStartLog
    /\ timerState' = next
    /\ last' = Applied(op, arg, timerState)
    /\ appState' = nextState
    /\ live' = c
    /\ liveLog' = Noted(c, nextState # appState, FALSE, FALSE)
    /\ UNCHANGED <<timerStateRef, interval>>
    /\ UNCHANGED <<phases, clock, builderVars, completionVars, preStart,
                   refs, countdownTimeouts, played, heard>>

\* the effects of the render run: the status effect of the live activity
\* if one of its dependencies changed since the render before, then
\* useEffect(() => { timerStateRef.current = timerState }, [timerState])
timerStateRefEffect ==
    /\ ~EffectsFlushed
    /\ timerStateRef' = timerState
    /\ LET c == entering(live)
           after == IF liveActivityDeps(timerStateRef, timerState)
                    THEN liveActivityStatusEffect(c, LibraryWorks, appState, phases,
                                                  timerState, clock)
                    ELSE c
       IN /\ live' = after
          /\ liveLog' = Noted(after, FALSE, FALSE, FALSE)
    /\ UNCHANGED <<timerVars, clock, appState, interval, builderVars, completionVars,
                   preStartVars, refs, countdownTimeouts, played, heard>>

\* a control is pressed: an update React takes up after the effects of the
\* render before
pressControl ==
    /\ EffectsFlushed
    /\ appState = "active"
    /\ ControlsShown
    /\ \E result \in ControlResults :
           Written(result.op, result.arg, result.next, entering(live), appState)

\* the callback of the tick interval, an update like that of a control
tickCallback ==
    /\ EffectsFlushed
    /\ timerState.status = "running"
    /\ Written("tick", clock, tickTimer(timerState, phases, clock),
               entering(live), appState)

\* handleCountdownComplete, called by the heartbeat of the countdown before
\* the start of a session opened with startWithCountdown
handleCountdownComplete ==
    /\ EffectsFlushed
    /\ preStartLog.onComplete = <<>>
    /\ timerState.status = "idle"
    /\ Written("countdownComplete", clock, startTimer(phases, clock),
               entering(live), appState)

\* the app state changes and handleAppStateChange reads the ref; while the
\* ref is behind, one change at most is delivered before the effects run
refAppStateChange ==
    /\ EffectsFlushed \/ last.op \notin AppStates
    /\ \E nextState \in NextAppStates(appState) :
        LET handled == handleAppStateChange(entering(live), LibraryWorks, nextState,
                                            phases, timerStateRef, clock)
        IN Written(nextState, clock,
                   IF nextState = "active" THEN handled.timerState ELSE timerState,
                   handled.live, nextState)

\* a second passes, the effects of the latest render having run
AdvanceRefs == EffectsFlushed /\ AdvanceLive

NextRefs ==
    \/ timerStateRefEffect
    \/ pressControl
    \/ tickCallback
    \/ handleCountdownComplete
    \/ refAppStateChange
    \/ AdvanceRefs

SpecRefs == InitRefs /\ [][NextRefs]_vars

\* ------------------------------------------------------------------------
\* A whole session up to its teardown: the countdown before the start, the
\* tick interval, the countdown timeouts, the live activity with its resync
\* interval, and the unmount of the screen.  onPrepare is not passed, so
\* that the task of the interaction manager goes on to the heartbeat in one
\* step; the calls of the library return.
\* ------------------------------------------------------------------------

TeardownEnd == MountedAt + MaxTeardownHalfSeconds * 500

\* the phase lists of the sessions: one step or two with a rest between
\* them, the last step long enough for countdown timeouts
TeardownPhaseLists ==
    {buildPhases(sch) : sch \in {c \in CueSchedules :
        /\ Len(c.steps) <= 2
        /\ c.steps[Len(c.steps)].durationSec = Seconds(COUNTDOWN_CUE_SECONDS + 1)
        /\ Len(c.steps) = 2 => c.restBetweenSec # Null}}

\* the screen mounts, with startWithCountdown or without
InitTeardown ==
    /\ phases \in TeardownPhaseLists
    /\ timerState = createInitialTimerState(phases)
    /\ last = Applied("createInitial", MountedAt, timerState)
    /\ clock = MountedAt
    /\ refs = initialRefs(timerState)
    /\ countdownTimeouts = {}
    /\ played = <<>>
    /\ heard = NothingHeard(0)
    /\ \E startWithCountdown \in BOOLEAN :
           preStart = preStartEffect(preStartMounted(startWithCountdown, Seconds(1), 0))
    /\ preStartLog = NoPreStartCalls
    /\ appState = "active"
    /\ live = liveMounted
    /\ liveLog = NothingPushed
    /\ timerStateRef = createInitialTimerState(<<>>)
    /\ interval = FALSE
    /\ BuilderIdle
    /\ CompletionIdle

TeardownRest == UNCHANGED <<phases, heard, timerStateRef, builderVars, completionVars>>

\* the tick effect: the interval is set while the status is running, and
\* its cleanup clears it
tickIntervalEffect(state) == state.status = "running"

\* setTimerState(next) by the step op, which itself plays handlerSounds and
\* left the hooks at c and p, and the render that follows: the status
\* effect of the live activity, the tick effect and the cue effects
SessionCommit(op, arg, next, handlerSounds, c, p, nextState) ==
    LET cues == effectsAfter(refs, countdownTimeouts, phases, timerState, next, clock)
        surface == IF liveActivityDeps(timerState, next)
                   THEN liveActivityStatusEffect(c, LibraryWorks, nextState, phases,
                                                 next, clock)
                   ELSE c
    IN /\ timerState' = next
       /\ last' = Applied(op, arg, timerState)
       /\ appState' = nextState
       /\ live' = surface
       /\ liveLog' = Noted(surface, nextState # appState, FALSE, FALSE)
       /\ interval' = tickIntervalEffect(next)
       /\ refs' = cues.refs
       /\ countdownTimeouts' = cues.timeouts
       /\ played' = handlerSounds \o cues.sounds
       /\ preStart' = p
       /\ UNCHANGED clock
       /\ TeardownRest

\* a control is pressed
sessionControl ==
    /\ preStart.mounted
    /\ appState = "active"
    /\ ControlsShown
    /\ \E result \in ControlResults :
           /\ SessionCommit(result.op, result.arg, result.next,
                            IF result.op = "start" /\ typeOf(phases, 0) = "exercise"
                            THEN <<StartSound>> ELSE <<>>,
                            entering(live), preStart, appState)
           /\ UNCHANGED preStartLog

\* the interval of the tick effect calls back
sessionTick ==
    /\ interval
    /\ SessionCommit("tick", clock, tickTimer(timerState, phases, clock), <<>>,
                     entering(live), preStart, appState)
    /\ UNCHANGED preStartLog

\* a timeout of scheduleCountdownCue that is due fires, the earliest first
sessionTimeout ==
    \E timeout \in countdownTimeouts :
        /\ timeout.at <= clock
        /\ \A other \in countdownTimeouts : other.at >= timeout.at
        /\ LET called == countdownCueTimeout(refs, timerState, timeout)
           IN /\ refs' = called.refs
              /\ played' = called.sounds
        /\ countdownTimeouts' = countdownTimeouts \ {timeout}
        /\ last' = Applied("timeout", clock, timerState)
        /\ live' = entering(live)
        /\ UNCHANGED <<timerState, clock, appState, liveLog, interval, preStartVars>>
        /\ TeardownRest

\* the listener of the app state is called
sessionAppState ==
    /\ preStart.mounted
    /\ \E nextState \in NextAppStates(appState) :
        LET handled == handleAppStateChange(entering(live), LibraryWorks, nextState,
                                            phases, timerState, clock)
        IN SessionCommit(nextState, clock, handled.timerState, <<>>, handled.live,
                         preStart, nextState)
    /\ UNCHANGED preStartLog

\* the resync interval calls its callback
sessionResync ==
    /\ live.liveActivityResyncIntervalRef # Null
    /\ LET called == resyncCallback(entering(live), LibraryWorks, appState, phases,
                                    timerState, clock)
       IN /\ live' = called
          /\ liveLog' = Noted(called, FALSE, TRUE, FALSE)
    /\ last' = Applied("resync", clock, timerState)
    /\ played' = <<>>
    /\ UNCHANGED <<timerState, clock, appState, interval, refs, countdownTimeouts,
                   preStartVars>>
    /\ TeardownRest

\* a call of the countdown hook: its onTick plays the beep, its onComplete
\* is handleCountdownComplete, which starts the timer with the start sound
sessionCountdown(op, called) ==
    /\ preStartLog' = Logged(called, TRUE)
    /\ IF called.onComplete # <<>>
       THEN SessionCommit(op, clock, startTimer(phases, clock),
                          [i \in 1..Len(called.onTick) |-> BeepSound(called.onTick[i])]
                              \o <<StartSound>>,
                          entering(live), called.state, appState)
       ELSE /\ preStart' = called.state
            /\ last' = Applied(op, clock, timerState)
            /\ played' = [i \in 1..Len(called.onTick) |-> BeepSound(called.onTick[i])]
            /\ live' = entering(live)
            /\ UNCHANGED <<timerState, clock, appState, liveLog, interval, refs,
                           countdownTimeouts>>
            /\ TeardownRest

\* the task of runAfterInteractions runs startCountdown
sessionInteractionTask ==
    /\ preStart.task = "scheduled"
    /\ sessionCountdown("startCountdown", startCountdown(preStart, clock))

\* the interval of the heartbeat calls tick
sessionHeartbeat ==
    /\ preStart.countdownIntervalRef
    /\ sessionCountdown("heartbeat", tick(preStart, clock))

\* the screen unmounts and the cleanups of its effects run: the live
\* activity, the countdown before the start, the tick interval and the
\* countdown timeouts
sessionUnmount ==
    /\ preStart.mounted
    /\ live' = stopLiveActivity(clearLiveActivityResync(entering(live)), LibraryWorks,
                                phases, timerState, clock)
    /\ liveLog' = Noted(live', FALSE, FALSE, FALSE)
    /\ preStart' = [(IF preStart.enabled THEN preStartCleanup(preStart) ELSE preStart)
                       EXCEPT !.mounted = FALSE]
    /\ interval' = FALSE
    /\ countdownTimeouts' = clearCountdownTimeouts(countdownTimeouts)
    /\ last' = Applied("unmount", clock, timerState)
    /\ played' = <<>>
    /\ UNCHANGED <<timerState, clock, appState, refs, preStartLog>>
    /\ TeardownRest

\* half a second passes; the timeouts that are due have fired, and so has
\* the tick interval while the app is active
AdvanceTeardown ==
    /\ clock < TeardownEnd
    /\ \A timeout \in countdownTimeouts : timeout.at > clock
    /\ (appState = "active" /\ interval)
          => tickTimer(timerState, phases, clock) = timerState
    /\ clock' = clock + 500
    /\ played' = <<>>
    /\ live' = entering(live)
    /\ UNCHANGED <<timerState, last, appState, liveLog, interval, refs,
                   countdownTimeouts, preStartVars>>
    /\ TeardownRest

NextTeardown ==
    \/ sessionControl
    \/ sessionTick
    \/ sessionTimeout
    \/ sessionAppState
    \/ sessionResync
    \/ sessionInteractionTask
    \/ sessionHeartbeat
    \/ sessionUnmount
    \/ AdvanceTeardown

SpecTeardown == InitTeardown /\ [][NextTeardown]_vars

\* ------------------------------------------------------------------------
\* Properties of the timer engine
\* ------------------------------------------------------------------------

durationMs(index) == getStepDurationMs(phases, index)

IsRunning(s) == s.status = "running" /\ s.stepStartedAt # Null

\* the sum of the durations of phases a..b of the list (0-based, inclusive)
RECURSIVE SumDur(_, _, _)
SumDur(steps, a, b) ==
    IF a > b THEN 0 ELSE getStepDurationMs(steps, a) + SumDur(steps, a + 1, b)

\* C1: tick is idempotent: ticking a second time with the same now returns
\* the state of the first tick, in every field.
Thm_C1_TickIdempotent ==
    \A t \in NowSet :
        LET once == tickTimer(timerState, phases, t)
        IN tickTimer(once, phases, t) = once

\* a tick has moved the timer to a later phase
Wit_C1_TickAdvanced ==
    /\ last.op = "tick"
    /\ last.status = "running"
    /\ timerState.status = "running"
    /\ timerState.currentStepIndex > last.index
    /\ tickTimer(timerState, phases, last.now) = timerState

\* C2: no double-advance: a tick at exactly stepStartedAt + durationMs(i)
\* lands on phase i+1 with its full duration (finished when i is the last
\* phase), and further ticks with that now change nothing.
Thm_C2_NoDoubleAdvance ==
    IsRunning(timerState) =>
        LET i == timerState.currentStepIndex
            t == ValueOf(timerState.stepStartedAt) + durationMs(i)
            once == tickTimer(timerState, phases, t)
        IN /\ IF i + 1 < Len(phases)
              THEN once = runningState(i + 1, durationMs(i + 1), t)
              ELSE once.status = "finished"
           /\ tickTimer(once, phases, t) = once
           /\ tickTimer(tickTimer(once, phases, t), phases, t) = once

\* a tick at the very end of a phase has started the following phase
Wit_C2_TickAtPhaseEnd ==
    /\ last.op = "tick"
    /\ last.status = "running"
    /\ timerState.currentStepIndex = last.index + 1
    /\ timerState = runningState(last.index + 1, durationMs(last.index + 1), last.now)

\* the result of a tick, from the sums of the durations
AbsolutePosition(s, steps, t) ==
    LET i == s.currentStepIndex
        e == Max2(0, t - ValueOf(s.stepStartedAt))
        J == {j \in i..(Len(steps) - 1) :
                 SumDur(steps, i, j - 1) <= e /\ e < SumDur(steps, i, j)}
    IN [found |-> J,
        states |-> {runningState(j, SumDur(steps, i, j) - e,
                                 t - (e - SumDur(steps, i, j - 1))) : j \in J}]

PushUps == <<[durationSec |-> 30], [durationSec |-> 10], [durationSec |-> 30]>>

\* C3: a tick computes the absolute position: the one phase j >= i whose
\* interval of summed durations holds the elapsed time, with the rest of
\* that interval as remainingMs; finished with remainingMs 0 when there is
\* none.  On [30s, 10s, 30s]: t0+29999 is phase 0 with 1 ms left, t0+30001
\* is phase 1 with 9999 ms left.
Thm_C3_TickAbsolutePosition ==
    /\ IsRunning(timerState) =>
          \A t \in NowSet :
              LET pos == AbsolutePosition(timerState, phases, t)
                  res == tickTimer(timerState, phases, t)
              IN IF pos.found = {}
                 THEN res.status = "finished" /\ res.remainingMs = 0
                 ELSE Cardinality(pos.found) = 1 /\ pos.states = {res}
    /\ \A t0 \in NowSet :
          LET s0 == startTimer(PushUps, t0)
          IN /\ tickTimer(s0, PushUps, t0 + 29999) = runningState(0, 1, t0)
             /\ tickTimer(s0, PushUps, t0 + 30001) = runningState(1, 9999, t0 + 30000)

\* a tick that passed the end of a phase, into the middle of a later one
Wit_C3_TickIntoLaterPhase ==
    /\ last.op = "tick"
    /\ last.status = "running"
    /\ IsRunning(timerState)
    /\ timerState.currentStepIndex > last.index
    /\ timerState.remainingMs < durationMs(timerState.currentStepIndex)
    /\ ValueOf(timerState.stepStartedAt) < last.now

\* C4: the result of a tick does not depend on the ticks before it: for
\* stepStartedAt <= t1 <= t2, a tick at t1 followed by one at t2 gives the
\* state of a single tick at t2.
Thm_C4_TickCadenceIndependent ==
    IsRunning(timerState) =>
        \A t1, t2 \in NowSet :
            (ValueOf(timerState.stepStartedAt) <= t1 /\ t1 <= t2) =>
                tickTimer(tickTimer(timerState, phases, t1), phases, t2)
                    = tickTimer(timerState, phases, t2)

\* the state of a tick within a phase, from which a later tick goes on to
\* a later phase
Wit_C4_TickBeforeLaterTick ==
    /\ last.op = "tick"
    /\ last.status = "running"
    /\ IsRunning(timerState)
    /\ timerState.remainingMs < durationMs(timerState.currentStepIndex)
    /\ \E t2 \in NowSet :
          /\ t2 > last.now
          /\ tickTimer(timerState, phases, t2).status = "running"
          /\ tickTimer(timerState, phases, t2).currentStepIndex
                 > timerState.currentStepIndex

\* the phase and the time left that a state shows
Shown(s) == <<s.status, s.currentStepIndex, s.remainingMs>>

PauseResume(s, t1, t2) == resumeTimer(pauseTimer(s, phases, t1), phases, t2)

\* pause at t1 and resume at t2 keep the remaining time of t1, and the timer
\* goes on from there as if t2 - t1 had not passed
PausedTimeExcluded(s, t1, t2) ==
    LET i == s.currentStepIndex
        resumed == PauseResume(s, t1, t2)
    IN /\ resumed.status = "running"
       /\ resumed.remainingMs = durationMs(i) - (t1 - ValueOf(s.stepStartedAt))
       /\ \A d \in NowSet :
              Shown(tickTimer(resumed, phases, t2 + d))
                  = Shown(tickTimer(s, phases, t1 + d))

\* C5 as stated: for every running state and every pause at t1 (not before
\* the anchor) and resume at t2 > t1, the paused time is excluded.
Cex_C5_PausedTimeExcludedAlways ==
    IsRunning(timerState) =>
        \A t1, t2 \in NowSet :
            (ValueOf(timerState.stepStartedAt) <= t1 /\ t1 < t2) =>
                PausedTimeExcluded(timerState, t1, t2)

\* C5 (amended): when the pause falls within the current phase, that is
\* stepStartedAt <= t1 <= stepStartedAt + durationMs(i), pause at t1 and
\* resume at t2 > t1 give a running state with the remainingMs of t1, and a
\* tick at t2 + d shows the phase and remainingMs of a tick at t1 + d.
Thm_C5_PausedTimeExcludedWithinPhase ==
    IsRunning(timerState) =>
        \A t1, t2 \in NowSet :
            (/\ ValueOf(timerState.stepStartedAt) <= t1
             /\ t1 <= ValueOf(timerState.stepStartedAt)
                         + durationMs(timerState.currentStepIndex)
             /\ t1 < t2) =>
                PausedTimeExcluded(timerState, t1, t2)

\* a resume of a timer that was paused in the middle of a phase
Wit_C5_ResumedMidPhase ==
    /\ last.op = "resume"
    /\ last.status = "paused"
    /\ IsRunning(timerState)
    /\ timerState.remainingMs > 0
    /\ timerState.remainingMs < durationMs(timerState.currentStepIndex)
    /\ ValueOf(timerState.stepStartedAt) + durationMs(timerState.currentStepIndex)
           = last.now + timerState.remainingMs

\* C6: stepStartedAt is non-null exactly when the status is running.
Thm_C6_AnchorIffRunning ==
    (timerState.stepStartedAt # Null) <=> (timerState.status = "running")

\* a pause has taken the anchor of a running timer away
Wit_C6_PauseClearedAnchor ==
    /\ last.op = "pause"
    /\ last.status = "running"
    /\ timerState.status = "paused"
    /\ timerState.stepStartedAt = Null

\* C7: remainingMs lies between 0 and the duration of the current phase.
Thm_C7_RemainingWithinPhase ==
    /\ 0 <= timerState.remainingMs
    /\ timerState.remainingMs <= durationMs(timerState.currentStepIndex)

\* a pause of a running timer at or after the end of its phase: nothing left
Wit_C7_PausedWithNothingLeft ==
    /\ last.op = "pause"
    /\ last.status = "running"
    /\ timerState.status = "paused"
    /\ timerState.remainingMs = 0
    /\ timerState.pausedRemainingMs = Some(0)

Cex_C9_FinishedTerminal ==
    (last.status = "finished" /\ last.op \notin {"start", "restart"})
        => timerState.status = "finished"

\* C10: next goes to phase currentStepIndex + 1 and previous to phase
\* max(0, currentStepIndex - 1), running, with the full duration of that
\* phase, anchored at now; next on the last phase finishes with 0 left
\* (as do both on an empty list, which has no phase to go to).
Thm_C10_JumpOnePhase ==
    LET i == last.index
    IN /\ last.op = "next" =>
             IF i + 1 < Len(phases)
             THEN timerState = runningState(i + 1, durationMs(i + 1), last.now)
             ELSE timerState.status = "finished" /\ timerState.remainingMs = 0
       /\ last.op = "previous" =>
             IF Len(phases) > 0
             THEN timerState = runningState(Max2(0, i - 1),
                                            durationMs(Max2(0, i - 1)), last.now)
             ELSE timerState.status = "finished" /\ timerState.remainingMs = 0

\* next from a paused timer has started the following phase in full
Wit_C10_NextFromPaused ==
    /\ last.op = "next"
    /\ last.status = "paused"
    /\ timerState = runningState(last.index + 1, durationMs(last.index + 1), last.now)

\* C11: selectPhase(k) leaves the timer paused on phase k with remainingMs
\* and pausedRemainingMs the full duration of k and no anchor, whatever the
\* state before; a following resume at t runs phase k in full from t.
Thm_C11_SelectPhasePausesAtFull ==
    last.op = "selectPhase" =>
        LET k == last.now
        IN /\ timerState = [status |-> "paused", currentStepIndex |-> k,
                            remainingMs |-> durationMs(k), stepStartedAt |-> Null,
                            pausedRemainingMs |-> Some(durationMs(k))]
           /\ \A t \in NowSet :
                  resumeTimer(timerState, phases, t) = runningState(k, durationMs(k), t)

\* a phase has been selected while the timer was running or paused
Wit_C11_SelectedFromRunning ==
    /\ last.op = "selectPhase"
    /\ last.status \in {"running", "paused"}
    /\ last.index # last.now
    /\ timerState.status = "paused"
    /\ timerState.currentStepIndex = last.now

\* C12: start on a non-empty list gives running on phase 0 with its full
\* duration, anchored at now; on an empty list finished with 0 left; restart
\* gives the same state as start, whatever the state before.
Thm_C12_StartFromTheTop ==
    last.op \in {"start", "restart"} =>
        IF Len(phases) > 0
        THEN timerState = runningState(0, durationMs(0), last.now)
        ELSE timerState.status = "finished" /\ timerState.remainingMs = 0

\* a restart from a later phase
Wit_C12_RestartFromLaterPhase ==
    /\ last.op = "restart"
    /\ last.index > 0
    /\ last.status \in {"running", "paused", "finished"}
    /\ timerState = runningState(0, durationMs(0), last.now)

\* ------------------------------------------------------------------------
\* Properties of the phase builder
\* ------------------------------------------------------------------------

IsExercise(phase) == phase.type = "exercise"
IsRest(phase) == phase.type = "rest"

\* the rest between phases, once clamped
restSec == clampDuration(restOrZero(schedule), 0, MaxDurationSec)

\* the step durations are whole seconds of [1,3600] and the rest a whole
\* number of seconds of [0,3600]: a schedule that clamping leaves as it is
WellFormed(sch) ==
    /\ \A i \in 1..Len(sch.steps) :
           \E n \in MinDurationSec..MaxDurationSec : sch.steps[i].durationSec = Seconds(n)
    /\ \E n \in 0..MaxDurationSec : restOrZero(sch) = Seconds(n)

\* sum over the steps of repeatCount * durationSec, in seconds
RECURSIVE SumRepeatTimesDuration(_, _)
SumRepeatTimesDuration(steps, i) ==
    IF i > Len(steps)
    THEN 0
    ELSE steps[i].repeatCount * (steps[i].durationSec.tenths \div 10)
             + SumRepeatTimesDuration(steps, i + 1)

\* E: the sum of the repeatCounts
RECURSIVE SumRepeat(_, _)
SumRepeat(steps, i) ==
    IF i > Len(steps) THEN 0 ELSE steps[i].repeatCount + SumRepeat(steps, i + 1)

\* C13: for a schedule whose step durations are already in [1,3600], the
\* total duration is the sum of repeatCount * durationSec, plus, when the
\* rest is positive, the rest times (E - 1), E the number of exercise phases
\* (stated for the schedules with at least one step and a whole-second rest).
Cex_C13_TotalDuration ==
    (built # Null /\ WellFormed(schedule) /\ Len(schedule.steps) > 0) =>
        getTotalDuration(schedule) =
            SumRepeatTimesDuration(schedule.steps, 1)
                + (IF restSec > 0 THEN restSec * (SumRepeat(schedule.steps, 1) - 1) ELSE 0)

\* C14: with a positive rest, a rest phase ("Rest", rest, rest) follows every
\* exercise phase but the very last phase of the list, and the last phase is
\* never a rest; whatever the ids of the steps.
Cex_C14_RestAfterEveryExerciseButLast ==
    (built # Null /\ restSec > 0) =>
        LET list == ValueOf(built)
        IN /\ \A i \in 1..(Len(list) - 1) :
                  IsExercise(list[i]) =>
                      list[i + 1] = [label |-> RestLabel, durationSec |-> restSec,
                                     type |-> "rest"]
           /\ Len(list) > 0 => ~IsRest(list[Len(list)])

\* the labels of the repetitions n..repeats of a step (1-based)
RECURSIVE LabelsOfStep(_, _)
LabelsOfStep(step, n) ==
    IF n > step.repeatCount
    THEN <<>>
    ELSE <<(IF step.repeatCount = 1 THEN <<step.label>> ELSE <<step.label, n>>)>>
             \o LabelsOfStep(step, n + 1)

\* the labels of the exercise phases of the steps i.. in input order
RECURSIVE LabelsOfSteps(_, _)
LabelsOfSteps(steps, i) ==
    IF i > Len(steps)
    THEN <<>>
    ELSE LabelsOfStep(steps[i], 1) \o LabelsOfSteps(steps, i + 1)

LabelsOf(list) == [i \in 1..Len(list) |-> list[i].label]

\* one step (Push-ups, 30 s, x2) with a rest of 10 s
PushUpsSchedule ==
    [steps |-> <<[id |-> "a", label |-> "Push-ups", durationSec |-> Seconds(30),
                  repeatCount |-> 2]>>,
     restBetweenSec |-> Some(Seconds(10))]

\* C15: the exercise phases are, step by step in input order, repeatCount
\* phases per step, labelled with the label of the step when it is not
\* repeated and with "{label} (x{n})" for repetition n when it is; the
\* Push-ups example gives (x1) 30, Rest 10, (x2) 30.
Thm_C15_ExpansionOrderAndLabels ==
    /\ built # Null =>
           LabelsOf(SelectSeq(ValueOf(built), IsExercise)) = LabelsOfSteps(schedule.steps, 1)
    /\ buildPhases(PushUpsSchedule) =
           << [label |-> <<"Push-ups", 1>>, durationSec |-> 30, type |-> "exercise"],
              [label |-> <<"Rest">>, durationSec |-> 10, type |-> "rest"],
              [label |-> <<"Push-ups", 2>>, durationSec |-> 30, type |-> "exercise"] >>

Wit_C15_RepeatedThenSingle ==
    /\ built # Null
    /\ Len(schedule.steps) = 2
    /\ schedule.steps[1].repeatCount > 1
    /\ schedule.steps[2].repeatCount = 1
    /\ schedule.steps[1].label # schedule.steps[2].label
    /\ Len(SelectSeq(ValueOf(built), IsExercise)) = schedule.steps[1].repeatCount + 1

\* C16: every emitted phase lasts a whole number of seconds of [1,3600]
\* whatever the durations and the rest given; no step is dropped; a rest
\* that clamps to 0 gives no rest phase.
Thm_C16_DurationsClamped ==
    built # Null =>
        LET list == ValueOf(built)
        IN /\ \A i \in 1..Len(list) :
                  list[i].durationSec \in MinDurationSec..MaxDurationSec
           /\ Len(SelectSeq(list, IsExercise)) = SumRepeat(schedule.steps, 1)
           /\ restSec = 0 => Len(SelectSeq(list, IsRest)) = 0

Wit_C16_MalformedDurations ==
    /\ built # Null
    /\ Len(schedule.steps) = 2
    /\ schedule.steps[1].durationSec = NonFinite
    /\ schedule.steps[2].durationSec = Finite(-15)
    /\ schedule.restBetweenSec = Some(Finite(36006))
    /\ Len(ValueOf(built)) > 2
    /\ \A i \in 1..Len(ValueOf(built)) :
           ValueOf(built)[i].durationSec = (IF IsRest(ValueOf(built)[i]) THEN MaxDurationSec ELSE MinDurationSec)

\* ------------------------------------------------------------------------
\* Properties of the cues
\* ------------------------------------------------------------------------

CueSeconds == 1..COUNTDOWN_CUE_SECONDS

\* stepStartedAt + duration of the phase that is running
phaseEnd == ValueOf(timerState.stepStartedAt) + durationMs(timerState.currentStepIndex)

\* C17: within one occupancy of a phase index, pauses and resumes included,
\* the beep of each of the seconds 3, 2, 1 is played at most once.
Cex_C17_BeepOncePerOccupancy ==
    \A k \in CueSeconds : heard.occupancy[k] <= 1

\* within one running segment of a phase (from the run of the countdown cue
\* effect that began it to the next), the beep of each of the seconds 3, 2, 1
\* is played at most once, by the immediate check or by a timeout
BeepOncePerSegment ==
    \A k \in CueSeconds : heard.segment[k] <= 1

\* the beep of second k of the running phase is played at phaseEnd - k
\* seconds: not before, once, and not later
BeepOnTime(k) ==
    LET due == phaseEnd - k * 1000
    IN /\ heard.at[k] # Null => heard.at[k] = Some(due) /\ heard.segment[k] = 1
       /\ clock > due => heard.at[k] # Null

\* C18: a phase longer than 3 s that runs from its top without a pause gets
\* the beeps of 3, 2 and 1 once each, at its end minus 3000, 2000 and 1000
\* ms, however late the ticks are.
Cex_C18_BeepsOnTime ==
    (IsRunning(timerState) /\ durationMs(timerState.currentStepIndex) > 3000
        /\ heard.fromTop)
        => \A k \in CueSeconds : BeepOnTime(k)

\* C18, amended: a phase longer than 3 s that began or resumed running no
\* later than 3000 ms before its end, and runs on, gets the beeps of 3, 2
\* and 1 once each, at its end minus 3000, 2000 and 1000 ms, however late the
\* ticks are after that.
Thm_C18_BeepsOnTimeOnceEntered ==
    (IsRunning(timerState) /\ durationMs(timerState.currentStepIndex) > 3000
        /\ heard.since <= phaseEnd - 3000)
        => \A k \in CueSeconds : BeepOnTime(k)

Wit_C18_ThreeBeepsNoTick ==
    /\ IsRunning(timerState)
    /\ durationMs(timerState.currentStepIndex) > 3000
    /\ timerState.remainingMs = durationMs(timerState.currentStepIndex)
    /\ heard.since < phaseEnd - 3000
    /\ played = <<BeepSound(1)>>
    /\ \A k \in CueSeconds : heard.at[k] = Some(phaseEnd - k * 1000)

\* C19: a run of an exercise phase that is seen running within the window
\* after its midpoint has had its half cue, once; no run has two; no half
\* cue is played on a rest phase.
Cex_C19_HalfCueOncePerRun ==
    /\ heard.halves <= 1
    /\ (/\ IsRunning(timerState)
        /\ typeOf(phases, timerState.currentStepIndex) = "exercise"
        /\ timerState.remainingMs <= durationMs(timerState.currentStepIndex) \div 2
        /\ timerState.remainingMs >=
               durationMs(timerState.currentStepIndex) \div 2 - HALF_CUE_WINDOW_MS)
           => heard.halves = 1
    /\ timesPlayed(played, HalfSound) > 0
           => typeOf(phases, timerState.currentStepIndex) = "exercise"

IsEntryCue(sound) == sound \in {StartSound, LockSound}

\* the cue for entering phase index
EntryCueOf(steps, index) ==
    IF typeOf(steps, index) = "exercise" THEN <<StartSound>>
    ELSE IF typeOf(steps, index) = "rest" THEN <<LockSound>>
    ELSE <<>>

\* C20: a step that changes currentStepIndex plays one entry cue, that of
\* the phase it lands on; a step that leaves it unchanged plays none.
Cex_C20_EntryCueIffIndexChanges ==
    [][SelectSeq(played', IsEntryCue) =
           (IF timerState'.currentStepIndex # timerState.currentStepIndex
            THEN EntryCueOf(phases', timerState'.currentStepIndex)
            ELSE <<>>)]_vars

\* C20, amended: a step that changes currentStepIndex plays one entry cue,
\* that of the phase it lands on; a step that leaves it unchanged plays none,
\* but for the start from idle, which leaves the index at 0 and plays the
\* start sound when phase 0 is an exercise.
Thm_C20_EntryCueOnIndexChangeOrStart ==
    [][SelectSeq(played', IsEntryCue) =
           (IF timerState'.currentStepIndex # timerState.currentStepIndex
            THEN EntryCueOf(phases', timerState'.currentStepIndex)
            ELSE IF timerState.status = "idle" /\ timerState'.status = "running"
                 THEN EntryCueOf(phases', 0)
                 ELSE <<>>)]_vars

Wit_C20_TickSkippedPhases ==
    /\ last.op = "tick"
    /\ timerState.status = "running"
    /\ timerState.currentStepIndex > last.index + 1
    /\ SelectSeq(played, IsEntryCue) = EntryCueOf(phases, timerState.currentStepIndex)
    /\ Len(SelectSeq(played, IsEntryCue)) = 1

\* the sounds are beeps of the countdown
HasBeep(sounds) == \E i \in DOMAIN sounds : sounds[i].name = "beep"

\* any timeout scheduleCountdownCue may have set, due by now
TimeoutsDueNow ==
    [at : {clock}, stepIndex : 0..Len(phases), cueSecond : CueSeconds]

Thm_C22_OneCompletionPerFinishedRun ==
    /\ scheduleLoaded => recordCompletionCalls = finishedRuns
    /\ ~scheduleLoaded => recordCompletionCalls = 0
    /\ scheduleLoaded => (completionRecordedRef <=> timerState.status = "finished")

\* a second run has finished, and its completion is the second one
Wit_C22_SecondRunRecorded ==
    /\ scheduleLoaded
    /\ timerState.status = "finished"
    /\ finishedRuns = 2
    /\ recordCompletionCalls = 2


\* ------------------------------------------------------------------------
\* Properties of the pre-start countdown
\* ------------------------------------------------------------------------

\* the N of the countdown, and the times its ticks begin and end at
CountdownN == resolvedCountdownSeconds(preStart.countdownSeconds)
CountdownBegin == ValueOf(preStartLog.startedAt) + preStart.getReadyDurationMs
CountdownEnd == CountdownBegin + CountdownN * PRE_START_INTERVAL_MS

\* the values onTick was called for, in order
TickValues == [i \in 1..Len(preStartLog.onTick) |-> preStartLog.onTick[i].value]

\* n, n - 1, ..., 1
CountingDown(n) == [i \in 1..n |-> n + 1 - i]

\* no tick before the get-ready delay has elapsed; the values ticked
\* decrease strictly within N..1; onComplete at most once, not before the
\* end of the countdown, and no tick after it
TicksInOrderThenComplete ==
    /\ \A i \in DOMAIN preStartLog.onTick :
           /\ preStartLog.startedAt # Null
           /\ preStartLog.onTick[i].at >= CountdownBegin
           /\ preStartLog.onTick[i].value \in 1..CountdownN
           /\ i > 1 => preStartLog.onTick[i].value < preStartLog.onTick[i - 1].value
    /\ Len(preStartLog.onComplete) <= 1
    /\ \A c \in DOMAIN preStartLog.onComplete :
           /\ preStartLog.startedAt # Null
           /\ preStartLog.onComplete[c].at >= CountdownEnd
           /\ preStart.task = "settled"
           /\ \A i \in DOMAIN preStartLog.onTick :
                  preStartLog.onTick[i].at < preStartLog.onComplete[c].at

\* C23 as stated: the pre-start sequence.  No tick before the get-ready
\* delay, onTick exactly once for each value N, N-1, ..., 1 in strictly
\* decreasing order, then onComplete exactly once at or after start +
\* getReady + N * 1000 ms, however irregular the heartbeat.
Cex_C23_EveryValueTicked ==
    /\ TicksInOrderThenComplete
    /\ Len(preStartLog.onComplete) = 1 => TickValues = CountingDown(CountdownN)

\* the countdown goes on: started, neither completed nor cancelled
Counting == preStart.task = "counting" /\ ~preStart.isCancelled

\* C23 amended: no tick before the get-ready delay; onTick at most once
\* per value, in strictly decreasing order within N..1, and called for the
\* value of every second in which tick runs; a countdown that is not
\* cancelled leads to onComplete, called exactly once, at or after start +
\* getReady + N * 1000 ms and after every tick.
Thm_C23_TicksObservedThenComplete ==
    /\ [](/\ TicksInOrderThenComplete
          /\ (Counting /\ preStartLog.lastBeatAt # Null
                 /\ ValueOf(preStartLog.lastBeatAt) >= CountdownBegin)
                => \E i \in DOMAIN preStartLog.onTick :
                      preStartLog.onTick[i].value =
                          countdownValueOf(CountdownEnd - ValueOf(preStartLog.lastBeatAt)))
    /\ (Counting ~> (preStart.isCancelled \/ Len(preStartLog.onComplete) = 1))

\* a countdown of two seconds after the get-ready delay ticked 2, then 1,
\* and completed
Wit_C23_CountedDownAndCompleted ==
    /\ preStart.getReadyDurationMs = DEFAULT_GET_READY_DURATION_MS
    /\ CountdownN = 2
    /\ TickValues = <<2, 1>>
    /\ Len(preStartLog.onComplete) = 1

\* the countdown is cancelled: the effect was cleaned up
Cancelled == preStart.isCancelled \/ ~preStart.enabled \/ ~preStart.mounted

\* C24: cancellation of the pre-start countdown is safe.  Once the
\* countdown is cancelled (enabled false, or unmount), whenever that is,
\* neither onTick nor onComplete is called, and the interval of the
\* heartbeat is cleared.
Thm_C24_CancelledCountdownIsSilent ==
    /\ \A i \in DOMAIN preStartLog.onTick : ~preStartLog.onTick[i].cancelled
    /\ \A c \in DOMAIN preStartLog.onComplete : ~preStartLog.onComplete[c].cancelled
    /\ Cancelled => ~preStart.countdownIntervalRef
    /\ Cancelled => preStart.task # "counting"

\* a countdown was cancelled between two ticks, its end has passed, and
\* onComplete was not called
Wit_C24_CancelledWhileCounting ==
    /\ preStart.isCancelled
    /\ Len(preStartLog.onTick) > 0
    /\ clock >= CountdownEnd
    /\ preStartLog.onComplete = <<>>


\* ------------------------------------------------------------------------
\* Properties of the live activity
\* ------------------------------------------------------------------------

\* what the surface is to show for the state s
SurfaceOf(steps, s) ==
    [subtitle |-> Some(steps[s.currentStepIndex + 1].label),
     date |-> Some(ValueOf(s.stepStartedAt)
                     + getStepDurationMs(steps, s.currentStepIndex))]

\* the step is handleAppStateChange with a state that is not active
LeavesForeground == appState' # appState /\ appState' # "active"

\* the step is handleAppStateChange('active')
EntersForeground == appState' # appState /\ appState' = "active"

\* the step is the callback of the resync interval
ResyncStep ==
    /\ last'.op = "resync"
    /\ UNCHANGED <<timerState, appState, clock>>
    /\ liveLog'.events = liveLog.events

Thm_C26_ResyncBounded ==
    /\ [](/\ live.liveActivityResyncAttemptsRef <= LIVE_ACTIVITY_RESYNC_ATTEMPTS
          /\ liveLog.loopPushes <= LIVE_ACTIVITY_RESYNC_ATTEMPTS
          /\ live.liveActivityResyncIntervalRef # Null
                => liveLog.loopPushes = live.liveActivityResyncAttemptsRef)
    /\ [][(ResyncStep /\ live.liveActivityResyncAttemptsRef
                            = LIVE_ACTIVITY_RESYNC_ATTEMPTS)
            => /\ live'.liveActivityResyncIntervalRef = Null
               /\ live'.pushes = <<>>]_vars

\* the interval has pushed as often as it may
Wit_C26_AttemptsUsedUp ==
    /\ live.liveActivityResyncIntervalRef # Null
    /\ liveLog.loopPushes = LIVE_ACTIVITY_RESYNC_ATTEMPTS

Cex_C28_NothingShownWhenNotRunning ==
    timerState.status # "running"
        => /\ live.liveActivityResyncIntervalRef = Null
           /\ live.shown = Null

\* C29: while running in the foreground, the surface shows what was
\* pushed last: the label of the current phase and the end stepStartedAt +
\* durationMs(currentStepIndex), after every change of currentStepIndex or
\* stepStartedAt.
Thm_C29_SurfaceFollowsForeground ==
    (appState = "active" /\ timerState.status = "running")
        => /\ live.shown = Some(SurfaceOf(phases, timerState))
           /\ live.liveActivityIdRef # Null

\* a tick in the foreground moved to the next phase, and the surface shows
\* that phase
Wit_C29_TickMovedOn ==
    /\ appState = "active"
    /\ last.op = "tick"
    /\ timerState.status = "running"
    /\ timerState.currentStepIndex = last.index + 1
    /\ live.shown = Some(SurfaceOf(phases, timerState))
    /\ live.pushes # <<>>

\* C30 as stated: a call of the library that throws is caught, and no
\* exception leaves the hook.
Cex_C30_FailuresCaught == ~liveLog.uncaught


\* ------------------------------------------------------------------------
\* Further properties of the timer engine
\* ------------------------------------------------------------------------

\* C31: pause, resume and tick change nothing outside their source status:
\* pauseTimer returns its input unless the status is running, resumeTimer
\* unless it is paused, tickTimer unless it is running, whatever now is.
Thm_C31_NoOpOutsideSourceStatus ==
    \A t \in NowSet :
        /\ timerState.status # "running"
              => /\ pauseTimer(timerState, phases, t) = timerState
                 /\ tickTimer(timerState, phases, t) = timerState
        /\ timerState.status # "paused"
              => resumeTimer(timerState, phases, t) = timerState

\* a tick was delivered to a paused timer part of the way through a phase
Wit_C31_TickWhilePaused ==
    /\ last.op = "tick"
    /\ last.status = "paused"
    /\ timerState.status = "paused"
    /\ timerState.remainingMs < durationMs(timerState.currentStepIndex)
    /\ timerState.remainingMs > 0


\* ------------------------------------------------------------------------
\* Properties of the writers of the TimerState
\* ------------------------------------------------------------------------

\* C32 as stated: no lost update.  The value handleAppStateChange('active')
\* writes is tickTimer applied to the latest TimerState, so that it neither
\* overwrites nor undoes a transition applied before it.
Cex_C32_NoLostUpdate ==
    [][EntersForeground => timerState' = tickTimer(timerState, phases, clock)]_vars


\* ------------------------------------------------------------------------
\* Properties of the teardown
\* ------------------------------------------------------------------------

InitProps ==
    /\ \E seconds \in CountdownSecondsInputs, getReady \in GetReadyInputs :
           preStart = preStartEffect(preStartMounted(TRUE, seconds, getReady))
    /\ preStartLog = NoPreStartCalls
    /\ clock = 0
    /\ CueRefsIdle
    /\ TimerIdle
    /\ BuilderIdle
    /\ CompletionIdle
    /\ LiveIdle
    /\ SessionIdle

\* countdownSeconds or getReadyDurationMs changes: a dependency of the
\* effect changed, so its cleanup runs and then the effect again
propsChange ==
    /\ preStart.mounted
    /\ preStart.enabled
    /\ \E seconds \in CountdownSecondsInputs, getReady \in GetReadyInputs :
           /\ <<seconds, getReady>> # <<preStart.countdownSeconds,
                                        preStart.getReadyDurationMs>>
           /\ preStart' = preStartEffect([preStartCleanup(preStart) EXCEPT
                                             !.countdownSeconds = seconds,
                                             !.getReadyDurationMs = getReady])
    /\ UNCHANGED <<preStartLog, clock>>
    /\ PreStartRest

\* half a second passes; a countdown still to begin begins early enough to
\* end within the session
AdvanceProps ==
    /\ (preStart.task \in {"scheduled", "preparing"} /\ ~preStart.isCancelled)
          => clock + 500 + preStart.getReadyDurationMs
                + resolvedCountdownSeconds(preStart.countdownSeconds)
                    * PRE_START_INTERVAL_MS <= PreStartEnd
    /\ AdvancePreStart

NextProps ==
    \/ runAfterInteractions
    \/ onPrepareSettled
    \/ heartbeat
    \/ propsChange
    \/ AdvanceProps

SpecProps == InitProps /\ [][NextProps]_vars

\* time passes, the interaction manager runs its tasks, onPrepare settles,
\* and an interval that is set calls its callback again and again
SpecPropsFair ==
    /\ SpecProps
    /\ WF_vars(AdvanceProps)
    /\ WF_vars(runAfterInteractions)
    /\ WF_vars(onPrepareSettled)
    /\ WF_vars(heartbeat)

\* ------------------------------------------------------------------------
\* The change of the phase list under the writers of the TimerState: the
\* schedule of the open player is loaded or edited, phases is derived anew
\* and the reset effect replaces the TimerState
\* ------------------------------------------------------------------------

\* the phase lists of the schedule: none before the schedule is loaded
ResetPhaseLists == {<<>>} \cup {p \in CuePhaseLists : Len(p) <= 3}

InitReset ==
    /\ phases \in ResetPhaseLists
    /\ timerState = createInitialTimerState(phases)
    /\ timerStateRef = timerState
    /\ interval = FALSE
    /\ last = Applied("createInitial", MountedAt, timerState)
    /\ clock = MountedAt
    /\ appState = "active"
    /\ live = liveMounted
    /\ liveLog = NothingPushed
    /\ CueRefsIdle
    /\ BuilderIdle
    /\ CompletionIdle
    /\ PreStartIdle

\* the render with the new phases and its effects: the reset effect calls
\* setTimerState(createInitialTimerState(phases)) and phasesRef follows;
\* the TimerState of this render is the old one, so timerStateRef keeps it
\* until the effects of the next render
phasesChanged ==
    /\ EffectsFlushed
    /\ \E p \in ResetPhaseLists :
           /\ p # phases
           /\ phases' = p
           /\ timerState' = createInitialTimerState(p)
    /\ last' = Applied("phasesChanged", clock, timerState)
    /\ UNCHANGED <<clock, appState, live, liveLog, timerStateRef, interval, builderVars,
                   completionVars, preStartVars, refs, countdownTimeouts, played, heard>>

NextReset ==
    \/ phasesChanged
    \/ timerStateRefEffect
    \/ pressControl
    \/ tickCallback
    \/ refAppStateChange
    \/ AdvanceRefs

SpecReset == InitReset /\ [][NextReset]_vars

\* ------------------------------------------------------------------------
\* The store of the completions under the player: the load of the store
\* settles, the provider renders, and the player records each finished run
\* ------------------------------------------------------------------------

\* the schedules of the player: the store of the schedules holds none
\* without a step
StoreSchedules ==
    {c \in CueSchedules : /\ Len(c.steps) <= 2
                          /\ c.steps[Len(c.steps)].durationSec = Seconds(1)}

\* what the storage holds: nothing, or the completion of an earlier session
StoredCompletions == {<<>>, <<[id |-> <<"completion", 0>>, steps |-> 1]>>}

InitStore ==
    /\ schedule \in StoreSchedules
    /\ built = Null
    /\ phases = buildPhases(schedule)
    /\ timerState = createInitialTimerState(phases)
    /\ last = Applied("createInitial", 0, timerState)
    /\ scheduleLoaded = TRUE
    /\ completionRecordedRef = FALSE
    /\ recordCompletionCalls = 0
    /\ finishedRuns = 0
    /\ store = initialState
    /\ CuesIdle
    /\ PreStartIdle
    /\ LiveIdle
    /\ SessionIdle

\* recordCompletion({scheduleId, scheduleName, steps: schedule.steps, ...})
\* if the record effect called it
recordedBy(calls, state) ==
    IF calls = 1 THEN recordCompletion(state, schedule) ELSE state

\* setTimerState with the result of a transition, and the completion
\* effects of the render
playerSetTimerState ==
    \E now \in NowSet :
        \E next \in TransitionsAt(now) :
            /\ Rendered(next, completionRecordedRef, 0)
            /\ store' = recordedBy(completionEffectsAfter(
                                       completionRecordedRef, scheduleLoaded,
                                       timerState.status, next.status).calls,
                                   store)
            /\ UNCHANGED <<phases, last, scheduleLoaded, builderVars, cueVars,
                           preStartVars, liveVars, sessionVars>>

\* loadFromStorage settles: the provider dispatches loaded, or error
loadSettled ==
    /\ store.status = "loading"
    /\ \E action \in {[type |-> "loaded", payload |-> stored] :
                          stored \in StoredCompletions}
                         \cup {[type |-> "error"]} :
           store' = completionsReducer(store, action)
    /\ UNCHANGED <<timerVars, scheduleLoaded, completionRecordedRef,
                   recordCompletionCalls, finishedRuns, builderVars, cueVars,
                   preStartVars, liveVars, sessionVars>>

\* the provider renders with the new status: recordCompletion is made anew
\* and the record effect of the player runs again
providerRendered ==
    /\ store.rendered # store.status
    /\ LET again == completionRecordEffect(completionRecordedRef, scheduleLoaded,
                                           timerState.status)
       IN /\ completionRecordedRef' = again.recorded
          /\ recordCompletionCalls' = recordCompletionCalls + again.calls
          /\ store' = recordedBy(again.calls,
                                 [store EXCEPT !.rendered = store.status])
    /\ UNCHANGED <<timerVars, scheduleLoaded, finishedRuns, builderVars, cueVars,
                   preStartVars, liveVars, sessionVars>>

NextStore ==
    \/ playerSetTimerState
    \/ loadSettled
    \/ providerRendered

SpecStore == InitStore /\ [][NextStore]_vars

\* ------------------------------------------------------------------------
\* A run of the timer: the controls, the tick interval and the passing of
\* time, from the opening of the player to the end of the last phase
\* ------------------------------------------------------------------------

\* the half seconds after the opening in which a control is pressed
MaxRunHalfSeconds == 3

\* the time a run takes from its first phase to its last
RunLength == futureMs(phases, 0)

\* the controls are pressed up to here; from here on the run is left alone
ControlsEnd == MountedAt + MaxRunHalfSeconds * 500

\* time enough to finish a run begun at the latest
RunEnd == ControlsEnd + RunLength + 500

InitRun ==
    /\ phases \in CuePhaseLists
    /\ timerState = createInitialTimerState(phases)
    /\ last = Applied("createInitial", MountedAt, timerState)
    /\ clock = MountedAt
    /\ CueRefsIdle
    /\ BuilderIdle
    /\ SidesIdle

RunRest == UNCHANGED <<phases, clock, builderVars, refs, countdownTimeouts, played,
                       heard, sideVars>>

\* a control is pressed
runControl ==
    /\ clock <= ControlsEnd
    /\ ControlsShown
    /\ \E result \in ControlResults :
           /\ timerState' = result.next
           /\ last' = Applied(result.op, result.arg, timerState)
    /\ RunRest

\* the callback of the tick interval, set while the status is running
runTick ==
    /\ tickIntervalEffect(timerState)
    /\ timerState' = tickTimer(timerState, phases, clock)
    /\ last' = Applied("tick", clock, timerState)
    /\ RunRest

\* half a second passes, whether the tick interval has run or not
AdvanceRun ==
    /\ clock < RunEnd
    /\ clock' = clock + 500
    /\ UNCHANGED <<timerVars, builderVars, refs, countdownTimeouts, played, heard,
                   sideVars>>

NextRun ==
    \/ runControl
    \/ runTick
    \/ AdvanceRun

SpecRun == InitRun /\ [][NextRun]_vars

\* time passes, and the tick interval calls its callback again and again
\* while it is set
SpecRunFair ==
    /\ SpecRun
    /\ WF_vars(AdvanceRun)
    /\ WF_vars(runTick)

\* ------------------------------------------------------------------------
\* Progress of the timer engine
\* ------------------------------------------------------------------------

\* the time the state s was computed for: a running state says so itself
\* (its anchor plus what has run of the phase), a state at rest has none
ComputedFor(s) ==
    IF IsRunning(s)
    THEN ValueOf(s.stepStartedAt)
           + (durationMs(s.currentStepIndex) - s.remainingMs)
    ELSE 0

\* from s to r the phase index did not decrease and what is left in total
\* did not increase
Progressed(s, r) ==
    /\ r.currentStepIndex >= s.currentStepIndex
    /\ getTotalRemainingMs(phases, r) <= getTotalRemainingMs(phases, s)

\* C34: monotone progress.  A tick, pause or resume with a now not before
\* the time the state was computed for leaves the phase index no lower and
\* the total remaining time no higher, and its result is computed for a
\* time not after now, so that the same holds of every call that follows
\* with a now not before this one.
Thm_C34_MonotoneProgress ==
    \A t \in NowSet :
        t >= ComputedFor(timerState) =>
            \A r \in {tickTimer(timerState, phases, t),
                       pauseTimer(timerState, phases, t),
                       resumeTimer(timerState, phases, t)} :
                /\ Progressed(timerState, r)
                /\ ComputedFor(r) <= t

\* a pause in a later phase, reached by ticks, part of the way through it
Wit_C34_PausedInLaterPhase ==
    /\ last.op = "pause"
    /\ last.status = "running"
    /\ last.index > 0
    /\ timerState.status = "paused"
    /\ timerState.remainingMs > 0
    /\ getTotalRemainingMs(phases, timerState) < durationMs(timerState.currentStepIndex)

\* the time at which the run of the running state s is over: its anchor
\* plus the durations of the current phase and the phases after it
RunOverAt(s) == ValueOf(s.stepStartedAt) + futureMs(phases, s.currentStepIndex)

\* a call of the tick callback on a running state
TickOfRun ==
    /\ IsRunning(timerState)
    /\ last' = Applied("tick", clock, timerState)
    /\ last' # last
    /\ UNCHANGED clock

\* C35: a run terminates.  A tick of a running timer gives the status
\* finished exactly when its now is at least the anchor plus the durations
\* of the current and all later phases, and then remainingMs is 0; and a
\* running timer whose tick keeps being called as time passes is ticked
\* unless a control stops it first, and once ticked it becomes finished
\* unless a control is pressed first (the latest call is then no longer a
\* tick).
Thm_C35_RunTerminates ==
    /\ [][TickOfRun =>
            /\ timerState'.status = "finished" <=> clock >= RunOverAt(timerState)
            /\ timerState'.status = "finished" => timerState'.remainingMs = 0]_vars
    /\ IsRunning(timerState) ~> (~IsRunning(timerState) \/ last.op = "tick")
    /\ (IsRunning(timerState) /\ last.op = "tick")
          ~> (timerState.status = "finished" \/ last.op # "tick")

\* a tick after a suspension finished a run that was in its first phase of
\* several
Wit_C35_FinishedByLateTick ==
    /\ last.op = "tick"
    /\ last.status = "running"
    /\ last.index = 0
    /\ Len(phases) > 1
    /\ timerState.status = "finished"
    /\ timerState.remainingMs = 0


\* ------------------------------------------------------------------------
\* Properties of the bookkeeping of the live activity
\* ------------------------------------------------------------------------

\* C36: a resync interval is set only while the app is not active, a
\* pinned state is held only while the app is not active, and the count
\* of the resync attempts is from 0 to LIVE_ACTIVITY_RESYNC_ATTEMPTS.
Thm_C36_BackgroundBookkeeping ==
    /\ live.liveActivityResyncIntervalRef # Null => appState # "active"
    /\ live.liveActivityPinnedStateRef # Null => appState # "active"
    /\ live.liveActivityResyncAttemptsRef \in 0..LIVE_ACTIVITY_RESYNC_ATTEMPTS

\* in the background the interval has used all its attempts on the pinned
\* state and is still set
Wit_C36_AllAttemptsUsed ==
    /\ appState = "background"
    /\ live.liveActivityResyncIntervalRef # Null
    /\ live.liveActivityPinnedStateRef # Null
    /\ live.liveActivityResyncAttemptsRef = LIVE_ACTIVITY_RESYNC_ATTEMPTS


\* ------------------------------------------------------------------------
\* Properties of the change of the phase list
\* ------------------------------------------------------------------------

\* C37: when the phase list has changed the TimerState is replaced by
\* createInitialTimerState of the new phases, and the run in progress is
\* reset, not continued with what the old list left: a change of the app
\* state, which starts nothing, finds and leaves the initial state.
Cex_C37_PhaseChangeResets ==
    [][(last.op = "phasesChanged" /\ last'.op \in AppStates)
          => timerState' = createInitialTimerState(phases)]_vars


\* ------------------------------------------------------------------------
\* Liveness of the pre-start countdown
\* ------------------------------------------------------------------------

\* C38: with enabled true and the hook mounted throughout, onComplete is
\* eventually called and isPreStartActive eventually false, whether or
\* not countdownSeconds or getReadyDurationMs changes on the way.
Cex_C38_CompletesWhateverChanges ==
    <>(preStartLog.onComplete # <<>> /\ ~preStart.isPreStartActive)


\* ------------------------------------------------------------------------
\* The cues at the end of a session
\* ------------------------------------------------------------------------

\* C39: a step that takes the status into finished plays no entry cue,
\* neither the start sound nor the lock sound, the tick that goes from an
\* earlier phase straight to finished included.
Cex_C39_NoEntryCueIntoFinished ==
    [][(timerState.status # "finished" /\ timerState'.status = "finished")
          => SelectSeq(played', IsEntryCue) = <<>>]_vars


\* ------------------------------------------------------------------------
\* Properties of the store of the completions
\* ------------------------------------------------------------------------

\* a call of recordCompletion
RecordCompletionCalled == store'.calls = store.calls + 1

\* the entries recordCompletion has added
Recorded(state) == SelectSeq(state.completions, LAMBDA entry : entry.id[2] > 0)

\* C40: recordCompletion called with the status ready adds exactly one new
\* entry, at the head of the completions, and returns its id; called with
\* the status loading or error it changes nothing and returns null.  The
\* player calls it once for a finished run and not again, so nothing but
\* such a call adds an entry: the completion of a run that got null is
\* never stored.
Thm_C40_RecordedAtHeadOrNever ==
    /\ [][RecordCompletionCalled =>
            IF store.rendered = "ready"
            THEN /\ store'.returned # Null
                 /\ \A i \in DOMAIN store.completions :
                        store.completions[i].id # ValueOf(store'.returned)
                 /\ Len(store'.completions) = Len(store.completions) + 1
                 /\ store'.completions[1].id = ValueOf(store'.returned)
                 /\ Tail(store'.completions) = store.completions
            ELSE /\ store'.returned = Null
                 /\ store'.completions = store.completions]_vars
    /\ [][~RecordCompletionCalled => Recorded(store') = Recorded(store)]_vars
    /\ [](store.calls = finishedRuns)

\* the run finished while the store was loading: null; the store is ready
\* now, the status still finished, and the run is not among the completions
Wit_C40_LostWhileLoading ==
    /\ timerState.status = "finished"
    /\ completionRecordedRef
    /\ store.calls = 1
    /\ store.returned = Null
    /\ store.status = "ready"
    /\ store.rendered = "ready"
    /\ Recorded(store) = <<>>


====
